---------------------------- MODULE Spec2Model ----------------------------
(***************************************************************************)
(* A model of rapid-judge: the judge-output normaliser, the aggregation    *)
(* engine, the single / pairwise / batch evaluation routes (both           *)
(* generations of each route that the source tree holds) and the client    *)
(* store's rubric version chain.                                           *)
(*                                                                         *)
(* Numbers.  A JavaScript number is modelled exactly, as an integer count  *)
(* of hundredths (4 is 400, 3.5 is 350, 72.5 is 7250), or as NaN.  The     *)
(* sample inputs never produce an infinity.  Arithmetic is exact; the      *)
(* binary rounding of IEEE doubles is not modelled.                        *)
(*                                                                         *)
(* Strings.  A JavaScript string that the code inspects (trims, lowers,    *)
(* parses as a number) is a sequence of one-character strings.             *)
(***************************************************************************)
EXTENDS Integers, Sequences, FiniteSets, TLC

VARIABLES
    pc,              \* position of the evaluation request in its handler
    req,             \* the request being handled
    primary,         \* what runPairwiseEval returned for the AB call
    resp,            \* the HTTP response of the request
    calls,           \* the judge calls issued for the request, in order
    aggIn,           \* input of the aggregation functions
    aggOut,          \* their outputs
    customRubrics,   \* store: customRubrics
    rubricVersions,  \* store: rubricVersions
    experimentRuns,  \* store: experimentRuns
    lastOp,          \* store: the last action applied, with its inputs
    now,             \* store: the clock read by new Date()
    fpIn,            \* the two rubrics handed to rubricFingerprint
    fpOut,           \* their fingerprints
    memory,          \* server: the memory of lib/server-memory
    runReq,          \* server: the body of the last experiment-run request
    runResp,         \* server: its response
    runLocals,       \* server: scoreSum, passCount and caseCount of its handler
    nanoids,         \* server: the number of ids nanoid() has given
    runClock,        \* server: the clock read by new Date()
    cmpIn,           \* the three deltas handed to verdictFromDeltas
    cmpOut,          \* its verdict
    rows,            \* batch page: the rows of the table
    running,         \* batch page: the state "running"
    done,            \* batch page: the state "done"
    abortRef,        \* batch page: abortRef.current
    handleRunPc,     \* batch page: where handleRun is, "idle" or "fetch"
    rowIndex,        \* batch page: the loop variable i of handleRun
    toast,           \* batch page: the last toast shown
    editor,          \* rubrics page: editingId, name, description, criteria
    fnIn,            \* the input of the function applied last
    fnOut,           \* its output
    history          \* store: history

evalVars == <<pc, req, primary, resp, calls>>
aggVars == <<aggIn, aggOut>>
storeVars == <<customRubrics, rubricVersions, experimentRuns, lastOp, now>>
fpVars == <<fpIn, fpOut>>
runVars == <<memory, runReq, runResp, runLocals, nanoids, runClock>>
cmpVars == <<cmpIn, cmpOut>>
pageVars == <<rows, running, done, abortRef, handleRunPc, rowIndex, toast>>
edVars == <<editor>>
fnVars == <<fnIn, fnOut>>
histVars == <<history>>
extVars == <<edVars, fnVars, histVars>>
otherVars == <<fpVars, runVars, cmpVars, pageVars, extVars>>
vars == <<pc, req, primary, resp, calls, aggIn, aggOut,
          customRubrics, rubricVersions, experimentRuns, lastOp, now,
          fpIn, fpOut, memory, runReq, runResp, runLocals, nanoids, runClock,
          cmpIn, cmpOut,
          rows, running, done, abortRef, handleRunPc, rowIndex, toast,
          editor, fnIn, fnOut, history>>

None == [t |-> "none"]

\* an optional member of a request body: absent, or present with a value
Absent == <<>>
Some(x) == <<x>>
ValueOf(o) == o[1]

-----------------------------------------------------------------------------
(* JavaScript values as JSON.parse produces them *)

Undefined == [t |-> "undefined", v |-> 0]
Null == [t |-> "null", v |-> 0]
Num(n) == [t |-> "number", v |-> n]
Str(s) == [t |-> "string", v |-> s]
Bool(b) == [t |-> "boolean", v |-> b]
Arr(a) == [t |-> "array", v |-> a]
Obj(f) == [t |-> "object", v |-> f]

NaN == [fin |-> FALSE, v |-> 0]
Fin(n) == [fin |-> TRUE, v |-> n]

Whitespace == {" ", "\n", "\t"}
Digits == <<"0", "1", "2", "3", "4", "5", "6", "7", "8", "9">>

IsDigit(c) == \E i \in 1..10 : Digits[i] = c
DigitVal(c) == (CHOOSE i \in 1..10 : Digits[i] = c) - 1

RECURSIVE TrimStart(_)
TrimStart(s) ==
    IF s # <<>> /\ Head(s) \in Whitespace THEN TrimStart(Tail(s)) ELSE s

RECURSIVE TrimEnd(_)
TrimEnd(s) ==
    IF s # <<>> /\ s[Len(s)] \in Whitespace
    THEN TrimEnd(SubSeq(s, 1, Len(s) - 1))
    ELSE s

Trim(s) == TrimEnd(TrimStart(s))

LowerChar(c) ==
    CASE c = "A" -> "a"
      [] c = "B" -> "b"
      [] c = "T" -> "t"
      [] c = "I" -> "i"
      [] c = "E" -> "e"
      [] OTHER -> c

ToLowerCase(s) == [i \in 1..Len(s) |-> LowerChar(s[i])]

RECURSIVE DigitsValue(_)
DigitsValue(s) ==
    IF s = <<>> THEN 0
    ELSE 10 * DigitsValue(SubSeq(s, 1, Len(s) - 1)) + DigitVal(s[Len(s)])

AllDigits(s) == s # <<>> /\ \A i \in 1..Len(s) : IsDigit(s[i])

\* the fraction digits of a decimal literal, in hundredths (two digits kept)
FractionValue(s) ==
    IF Len(s) = 1 THEN 10 * DigitVal(s[1])
    ELSE 10 * DigitVal(s[1]) + DigitVal(s[2])

\* an unsigned decimal literal: digits, optionally "." and digits
UnsignedLiteral(s) ==
    IF AllDigits(s) THEN Fin(100 * DigitsValue(s))
    ELSE IF \E i \in 2..(Len(s) - 1) :
                /\ s[i] = "."
                /\ AllDigits(SubSeq(s, 1, i - 1))
                /\ AllDigits(SubSeq(s, i + 1, Len(s)))
         THEN LET i == CHOOSE j \in 2..(Len(s) - 1) : s[j] = "."
              IN Fin(100 * DigitsValue(SubSeq(s, 1, i - 1))
                     + FractionValue(SubSeq(s, i + 1, Len(s))))
         ELSE NaN

\* Number(string): whitespace trimmed, "" is 0, a decimal literal is its
\* value, anything else is NaN
StringToNumber(s) ==
    LET t == Trim(s) IN
    IF t = <<>> THEN Fin(0)
    ELSE IF Head(t) = "-"
         THEN LET u == UnsignedLiteral(Tail(t))
              IN IF u.fin THEN Fin(0 - u.v) ELSE NaN
         ELSE UnsignedLiteral(t)

RECURSIVE NatToDigits(_)
NatToDigits(n) ==
    IF n < 10 THEN <<Digits[n + 1]>>
    ELSE NatToDigits(n \div 10) \o <<Digits[(n % 10) + 1]>>

\* String(number) of a finite number held in hundredths
NumberToString(v) ==
    LET a == IF v < 0 THEN 0 - v ELSE v
        whole == NatToDigits(a \div 100)
        f == a % 100
        frac == IF f = 0 THEN <<>>
                ELSE IF f % 10 = 0 THEN <<".", Digits[(f \div 10) + 1]>>
                ELSE <<".", Digits[(f \div 10) + 1], Digits[(f % 10) + 1]>>
    IN (IF v < 0 THEN <<"-">> ELSE <<>>) \o whole \o frac

\* String(value); an array joins its elements with ","
RECURSIVE JsString(_)
JsString(x) ==
    CASE x.t = "string" -> x.v
      [] x.t = "number" -> NumberToString(x.v)
      [] x.t = "boolean" ->
            IF x.v THEN <<"t", "r", "u", "e">> ELSE <<"f", "a", "l", "s", "e">>
      [] x.t = "null" -> <<"n", "u", "l", "l">>
      [] x.t = "undefined" ->
            <<"u", "n", "d", "e", "f", "i", "n", "e", "d">>
      [] x.t = "array" ->
            IF Len(x.v) = 0 THEN <<>>
            ELSE IF Len(x.v) = 1
                 THEN (IF x.v[1].t \in {"null", "undefined"} THEN <<>>
                       ELSE JsString(x.v[1]))
            ELSE JsString(Arr(SubSeq(x.v, 1, Len(x.v) - 1))) \o <<",">>
                 \o (IF x.v[Len(x.v)].t \in {"null", "undefined"} THEN <<>>
                     ELSE JsString(x.v[Len(x.v)]))
      [] OTHER -> <<"[", "o", "b", "j", "e", "c", "t", " ",
                    "O", "b", "j", "e", "c", "t", "]">>

\* Number(value)
ToNumber(x) ==
    CASE x.t = "number" -> Fin(x.v)
      [] x.t = "undefined" -> NaN
      [] x.t = "null" -> Fin(0)
      [] x.t = "boolean" -> IF x.v THEN Fin(100) ELSE Fin(0)
      [] x.t = "string" -> StringToNumber(x.v)
      [] x.t = "array" -> StringToNumber(JsString(x))
      [] OTHER -> NaN

\* value ?? fallback
Coalesce(x, d) == IF x.t \in {"undefined", "null"} THEN d ELSE x

\* object[key] on a value that is not null or undefined
Get(x, key) ==
    IF x.t = "object" /\ key \in DOMAIN x.v THEN x.v[key] ELSE Undefined

\* object?.[key]
OptGet(x, key) ==
    IF x.t \in {"undefined", "null"} THEN Undefined ELSE Get(x, key)

\* whether object.key throws a TypeError
GetThrows(x) == x.t \in {"undefined", "null"}

-----------------------------------------------------------------------------
(* lib/judge-output: parsing and normalising the judge's text *)

\* Math.round of a number in hundredths: the nearest integer, halves up
MathRound(v) == ((v + 50) \div 100) * 100

\* Math.round(v * 10) / 10
RoundToTenth(v) == ((v + 5) \div 10) * 10

Max(a, b) == IF a >= b THEN a ELSE b
Min(a, b) == IF a <= b THEN a ELSE b

clamp(n, min, max) == Max(min, Min(max, n))

\* undefined is modelled as NaN: the result is used only through its
\* "=== undefined" test
FiniteOrUndefined(n) == IF n.fin THEN n ELSE NaN

toFiniteNumber(value) ==
    FiniteOrUndefined(IF value.t = "number" THEN Fin(value.v)
                      ELSE ToNumber(value))

\* text.replace(/^```(?:json)?\s*/i, "").replace(/\s*```\s*$/, "").trim()
StripFences(text) == text.body

\* JSON.parse: a SyntaxError unless the text is JSON
JsonParse(cleaned) ==
    IF cleaned.json THEN [thrown |-> "none", val |-> cleaned.val]
    ELSE [thrown |-> "SyntaxError", val |-> Undefined]

\* !parsed
Falsy(x) ==
    \/ x.t \in {"undefined", "null"}
    \/ x.t = "number" /\ x.v = 0
    \/ x.t = "string" /\ x.v = <<>>
    \/ x.t = "boolean" /\ ~x.v

\* typeof parsed
TypeOf(x) ==
    CASE x.t \in {"object", "array", "null"} -> "object"
      [] OTHER -> x.t

\* a variant of parseJudgeJson without the Array.isArray test
ParseAcceptingArrays(text) ==
    LET parsed == JsonParse(StripFences(text))
    IN IF parsed.thrown # "none" \/ Falsy(parsed.val)
          \/ TypeOf(parsed.val) # "object"
       THEN [thrown |-> "JudgeJsonParseError", raw |-> text, val |-> Undefined]
       ELSE [thrown |-> "none", raw |-> text, val |-> parsed.val]

parseJudgeJson(text) ==
    LET cleaned == StripFences(text)
        parsed == JsonParse(cleaned)
    IN IF \/ parsed.thrown # "none"
          \/ Falsy(parsed.val)
          \/ TypeOf(parsed.val) # "object"
          \/ parsed.val.t = "array"
       THEN [thrown |-> "JudgeJsonParseError", raw |-> text, val |-> Undefined]
       ELSE [thrown |-> "none", raw |-> text, val |-> parsed.val]

\* n: what toFiniteNumber(raw) returned
CriterionScoreOf(n, maxScore) ==
    IF ~n.fin THEN 100 ELSE MathRound(clamp(n.v, 100, 100 * maxScore))

normalizeCriterionScore(raw, maxScore) ==
    CriterionScoreOf(toFiniteNumber(raw), maxScore)

\* n: what toFiniteNumber(raw) returned
AggregateScoreOf(n, fallback) ==
    RoundToTenth(clamp(IF ~n.fin THEN fallback ELSE n.v, 0, 10000))

normalizeAggregateScore(raw, fallback) ==
    AggregateScoreOf(toFiniteNumber(raw), fallback)

normalizeVerdict(raw) ==
    LET v == ToLowerCase(Trim(JsString(Coalesce(raw, Str(<<"t", "i", "e">>)))))
    IN IF v = <<"a">> THEN "A"
       ELSE IF v = <<"b">> THEN "B"
       ELSE "tie"

normalizeText(raw) == IF raw.t = "string" THEN Trim(raw.v) ELSE <<>>

-----------------------------------------------------------------------------
(* The aggregation engine.  A weight is held in hundred-thousandths (0.25  *)
(* is 25000), a score in hundredths, maxScore in units (5 or 10).  One     *)
(* term of the loop, (score / maxScore) * 100 * weight, is held as the     *)
(* integer score * weight * (10 / maxScore); with the sum of the weights   *)
(* in hundred-thousandths, weighted / totalWeight in tenths of a point is  *)
(* the quotient of the two integers.                                       *)

RECURSIVE SeqSum(_)
SeqSum(s) == IF s = <<>> THEN 0 ELSE Head(s) + SeqSum(Tail(s))

\* criteria.find((c) => c.id === id): the first match, or None
FindCriterion(criteria, id) ==
    IF \E i \in 1..Len(criteria) : criteria[i].id = id
    THEN criteria[CHOOSE i \in 1..Len(criteria) :
                    /\ criteria[i].id = id
                    /\ \A j \in 1..(i - 1) : criteria[j].id # id]
    ELSE None

Matches(criteria, cs) == \E i \in 1..Len(criteria) : criteria[i].id = cs.criterionId

\* weighted, after the loop; clampScores: whether the loop clamps cs.score
\* to [1, cs.maxScore] first
WeightedSum(scores, criteria, clampScores) ==
    SeqSum([i \in 1..Len(scores) |->
        LET cs == scores[i]
            sc == IF clampScores
                  THEN Max(100, Min(100 * cs.maxScore, cs.score))
                  ELSE cs.score
        IN IF ~Matches(criteria, cs) THEN 0
           ELSE sc * FindCriterion(criteria, cs.criterionId).weight
                   * (10 \div cs.maxScore)])

\* a variant of TotalWeight: the nominal sum of all the rubric's weights
NominalWeight(scores, criteria) ==
    SeqSum([i \in 1..Len(criteria) |-> criteria[i].weight])

\* totalWeight, after the loop
TotalWeight(scores, criteria) ==
    SeqSum([i \in 1..Len(scores) |->
        IF ~Matches(criteria, scores[i]) THEN 0
        ELSE FindCriterion(criteria, scores[i].criterionId).weight])

\* Math.round((weighted / totalWeight) * 10) / 10, in hundredths
RoundedMean(weighted, totalWeight) ==
    ((2 * weighted + totalWeight) \div (2 * totalWeight)) * 10

\* lib/utils
computeAggregateScore(criterionScores, criteria) ==
    LET weightedSum == WeightedSum(criterionScores, criteria, FALSE)
        totalWeight == TotalWeight(criterionScores, criteria)
    IN IF totalWeight = 0 THEN 0 ELSE RoundedMean(weightedSum, totalWeight)

\* the aggregate of the routes that clamp: each score to [1, maxScore], the
\* mean to [0, 100]
ClampedAggregate(scores, rubric) ==
    LET weighted == WeightedSum(scores, rubric.criteria, TRUE)
        totalWeight == TotalWeight(scores, rubric.criteria)
    IN IF totalWeight = 0 THEN 0
       ELSE RoundedMean(Max(0, Min(1000 * totalWeight, weighted)), totalWeight)

\* the aggregate of the routes that do not clamp
UnclampedAggregate(scores, rubric) ==
    LET weighted == WeightedSum(scores, rubric.criteria, FALSE)
        totalWeight == TotalWeight(scores, rubric.criteria)
    IN IF totalWeight = 0 THEN 0 ELSE RoundedMean(weighted, totalWeight)

\* single route
computeAggregateFromScores(scores, rubric) == ClampedAggregate(scores, rubric)

\* pairwise route
computeAggregate(scores, rubric) == ClampedAggregate(scores, rubric)

\* batch route
computeAggregateBatch(scores, rubric) == ClampedAggregate(scores, rubric)

\* the earlier generation of the three routes
computeAggregateFromScoresV1(scores, rubric) == UnclampedAggregate(scores, rubric)

computeAggregateV1(scores, rubric) == UnclampedAggregate(scores, rubric)

computeAggregateBatchV1(scores, rubric) == UnclampedAggregate(scores, rubric)

-----------------------------------------------------------------------------
(* lib/models and lib/rubric-templates.  A model id is the pair of its     *)
(* provider prefix and the rest of the id; a weight is held in             *)
(* hundred-thousandths (0.25 is 25000).                                    *)

MODELS ==
    << [id |-> <<"gpt-", "4o">>, provider |-> "openai",
        inputCostPer1M |-> 2500, outputCostPer1M |-> 10000],
       [id |-> <<"gpt-", "4o-mini">>, provider |-> "openai",
        inputCostPer1M |-> 150, outputCostPer1M |-> 600],
       [id |-> <<"gpt-", "4-turbo">>, provider |-> "openai",
        inputCostPer1M |-> 10000, outputCostPer1M |-> 30000],
       [id |-> <<"claude-", "3-5-sonnet-20241022">>, provider |-> "anthropic",
        inputCostPer1M |-> 3000, outputCostPer1M |-> 15000],
       [id |-> <<"claude-", "3-5-haiku-20241022">>, provider |-> "anthropic",
        inputCostPer1M |-> 800, outputCostPer1M |-> 4000],
       [id |-> <<"claude-", "3-opus-20240229">>, provider |-> "anthropic",
        inputCostPer1M |-> 15000, outputCostPer1M |-> 75000],
       [id |-> <<"gemini-", "1.5-pro">>, provider |-> "google",
        inputCostPer1M |-> 1250, outputCostPer1M |-> 5000],
       [id |-> <<"gemini-", "1.5-flash">>, provider |-> "google",
        inputCostPer1M |-> 75, outputCostPer1M |-> 300],
       [id |-> <<"gemini-", "2.0-flash">>, provider |-> "google",
        inputCostPer1M |-> 100, outputCostPer1M |-> 400] >>

\* MODELS.find((m) => m.id === id), or None
getModelById(id) ==
    IF \E i \in 1..Len(MODELS) : MODELS[i].id = id
    THEN MODELS[CHOOSE i \in 1..Len(MODELS) : MODELS[i].id = id]
    ELSE None

\* "throws" stands for the Error resolveProvider throws
resolveProvider(modelId) ==
    IF modelId[1] = "gpt-" THEN "openai"
    ELSE IF modelId[1] = "claude-" THEN "anthropic"
    ELSE IF modelId[1] = "gemini-" THEN "google"
    ELSE "throws"

BuiltInOverall ==
    [id |-> "builtin-overall",
     name |-> "Overall Quality",
     description |-> "Holistic evaluation",
     criteria |->
        << [id |-> "o-helpfulness", weight |-> 25000, scoreRange |-> 10],
           [id |-> "o-accuracy", weight |-> 25000, scoreRange |-> 10],
           [id |-> "o-harmlessness", weight |-> 25000, scoreRange |-> 10],
           [id |-> "o-coherence", weight |-> 25000, scoreRange |-> 10] >>,
     isBuiltIn |-> TRUE,
     createdAt |-> 0]

BUILT_IN_RUBRICS == <<BuiltInOverall>>

getBuiltInRubricById(id) ==
    IF \E i \in 1..Len(BUILT_IN_RUBRICS) : BUILT_IN_RUBRICS[i].id = id
    THEN BUILT_IN_RUBRICS[CHOOSE i \in 1..Len(BUILT_IN_RUBRICS) :
                            BUILT_IN_RUBRICS[i].id = id]
    ELSE None

-----------------------------------------------------------------------------
(* The inputs of the evaluation routes *)

\* the rubric snapshot a client sends: two criteria of different ranges
SnapshotRubric ==
    [id |-> "custom-1",
     name |-> "Custom",
     description |-> "",
     criteria |->
        << [id |-> "c1", weight |-> 60000, scoreRange |-> 5],
           [id |-> "c2", weight |-> 40000, scoreRange |-> 10] >>,
     isBuiltIn |-> FALSE,
     createdAt |-> 1]

\* what a judge may put under a score key
RawScores ==
    { Undefined, Null, Num(-300), Num(0), Num(300), Num(350), Num(240),
      Num(1100), Str(<<"7">>), Str(<<" ", "4", ".", "5">>),
      Str(<<"a", "b", "c">>), Str(<<>>), Arr(<<>>), Arr(<<Num(200)>>),
      Obj(<<>>), Bool(TRUE) }

\* what a judge may put under an aggregate key
RawAggregates ==
    { Undefined, Null, Num(0), Num(7250), Num(5555), Num(15000), Num(-500),
      Str(<<"8", "8">>), Str(<<"a", "b", "c">>), Obj(<<>>) }

\* what a judge may put under the verdict key
RawVerdicts ==
    { Undefined, Null, Str(<<"A">>), Str(<<"a">>), Str(<<"B">>),
      Str(<<" ", "b", " ">>), Str(<<"t", "i", "e">>), Str(<<"T", "I", "E">>),
      Str(<<"A", "B">>), Arr(<<Str(<<"a">>)>>), Num(100), Obj(<<>>) }

ScoreKeys(rubric) ==
    { <<rubric.criteria[i].id, side>> :
        i \in 1..Len(rubric.criteria), side \in {"", "A", "B"} }

\* the judge's "scores" object: ra under every _A key and under the first
\* criterion's plain key, rb under every _B key and the other plain keys
ScoresObject(rubric, ra, rb) ==
    Obj([k \in ScoreKeys(rubric) |->
            IF k[2] = "A" \/ (k[2] = "" /\ k[1] = rubric.criteria[1].id)
            THEN ra ELSE rb])

\* the judge's "criterion_reasoning" object: raw under every key
ReasoningObject(rubric, raw) == Obj([k \in ScoreKeys(rubric) |-> raw])

JudgeObject(scores, reasoning, agg, aggA, aggB, verdict, cot) ==
    Obj([scores |-> scores,
         criterion_reasoning |-> reasoning,
         aggregate_score |-> agg,
         aggregate_score_A |-> aggA,
         aggregate_score_B |-> aggB,
         verdict |-> verdict,
         chain_of_thought |-> cot])

\* the JSON objects a judge may return for a rubric
JudgeObjects(rubric) ==
    { JudgeObject(ScoresObject(rubric, ra, rb), Undefined, Undefined, Undefined,
                  Undefined, Str(<<"A">>), Str(<<"o", "k">>)) :
        ra \in RawScores, rb \in {Undefined, Num(240), Num(1100), Str(<<"7">>)} }
    \cup
    { JudgeObject(ScoresObject(rubric, Num(400), Num(200)), Undefined,
                  ga, ga, gb, Str(<<"B">>), Undefined) :
        ga \in RawAggregates, gb \in {Undefined, Num(15000), Num(5555)} }
    \cup
    { JudgeObject(ScoresObject(rubric, Num(500), Num(300)),
                  ReasoningObject(rubric, c), Undefined, Undefined, Undefined,
                  v, c) :
        v \in RawVerdicts, c \in {Undefined, Str(<<" ", "o", "k", " ">>)} }
    \cup
    { JudgeObject(sc, sc, Undefined, Undefined, Undefined, Undefined, sc) :
        sc \in {Undefined, Null, Str(<<"x">>), Num(500), Arr(<<>>), Obj(<<>>)} }

\* JSON values that are not objects
NonObjects ==
    { Null, Num(0), Num(500), Str(<<>>), Str(<<"o", "k">>), Bool(FALSE),
      Bool(TRUE), Arr(<<>>), Arr(<<Num(100)>>) }

\* a judge text: fence says whether it is wrapped in ``` fences, body is
\* what the fences hold, which either is JSON (val) or is not
Text(fence, json, val) ==
    [fence |-> fence, body |-> [json |-> json, val |-> val]]

JudgeTexts(rubric) ==
    { Text(FALSE, TRUE, o) : o \in JudgeObjects(rubric) }
    \cup { Text(TRUE, TRUE, JudgeObject(ScoresObject(rubric, Num(400), Num(200)),
                                        ReasoningObject(rubric, Str(<<"o", "k">>)),
                                        Num(7000), Num(8000), Num(6000),
                                        Str(<<"A">>), Str(<<"o", "k">>))) }
    \cup { Text(f, TRUE, x) : f \in BOOLEAN, x \in NonObjects }
    \cup { Text(f, FALSE, Undefined) : f \in BOOLEAN }

\* what one generateText call ends in: a provider failure or a text
JudgeOutcomes(rubric) ==
    { [failed |-> TRUE, text |-> Text(FALSE, FALSE, Undefined)] }
    \cup { [failed |-> FALSE, text |-> t] : t \in JudgeTexts(rubric) }

Providers == {"openai", "anthropic", "google"}

\* the fields every evaluation request carries: promptLen is the length of
\* its prompt, rubric the snapshot it sends (None: none), keys the
\* providers for which the header or the environment holds an API key
BaseRequests ==
    { [promptLen |-> 1, rubricId |-> "custom-1", rubric |-> SnapshotRubric,
       modelId |-> m, keys |-> k] :
        m \in { <<"gpt-", "4o">>, <<"claude-", "3-opus-20240229">>,
                <<"gpt-", "5">>, <<"llama-", "3">> },
        k \in { {}, {"openai"}, {"anthropic"} } }
    \cup
    { [promptLen |-> 1, rubricId |-> id, rubric |-> None,
       modelId |-> <<"gpt-", "4o">>, keys |-> {"openai"}] :
        id \in {"builtin-overall", "custom-1"} }
    \cup
    { [promptLen |-> 0, rubricId |-> "custom-1", rubric |-> SnapshotRubric,
       modelId |-> <<"gpt-", "4o">>, keys |-> {"openai"}] }

Extend(r, route, gen, mode, detect) ==
    [route |-> route, gen |-> gen, mode |-> mode, detectPositionBias |-> detect,
     promptLen |-> r.promptLen, rubricId |-> r.rubricId, rubric |-> r.rubric,
     modelId |-> r.modelId, keys |-> r.keys]

IsBase(r) ==
    /\ r.promptLen = 1
    /\ r.rubric = SnapshotRubric
    /\ r.modelId = <<"gpt-", "4o">>
    /\ r.keys = {"openai"}

\* pairwise requests: position-bias detection is asked for on one of them
PairwiseRequests(gen) ==
    { Extend(r, "pairwise", gen, "pairwise", FALSE) : r \in BaseRequests }
    \cup { Extend(r, "pairwise", gen, "pairwise", TRUE) :
            r \in {b \in BaseRequests : IsBase(b)} }

SingleRequests(gen) ==
    { Extend(r, "single", gen, "single", FALSE) : r \in BaseRequests }

BatchRequests(gen) ==
    { Extend(r, "batch", gen, mode, FALSE) :
        r \in BaseRequests, mode \in {"single", "pairwise"} }

-----------------------------------------------------------------------------
(* Responses *)

Reject(status, error) ==
    [status |-> status, error |-> error, raw |-> None, result |-> None]

InvalidJson(raw) ==
    [status |-> 502, error |-> "Judge returned invalid JSON", raw |-> raw,
     result |-> None]

Ok(result) ==
    [status |-> 200, error |-> "", raw |-> None, result |-> result]

\* RequestSchema.safeParse(body).success, for the fields modelled
SchemaOk(r) == r.promptLen >= 1

\* rubricSnapshot ?? getBuiltInRubricById(rubricId)
ResolveRubric(r) ==
    IF r.rubric # None THEN r.rubric ELSE getBuiltInRubricById(r.rubricId)

-----------------------------------------------------------------------------
(* app/api/evaluate/pairwise, current generation *)

extractPairwiseScores(parsed, rubric, side) ==
    [i \in 1..Len(rubric.criteria) |->
        LET c == rubric.criteria[i] IN
        [criterionId |-> c.id,
         score |-> normalizeCriterionScore(
                      OptGet(Get(parsed, "scores"), <<c.id, side>>),
                      c.scoreRange),
         maxScore |-> c.scoreRange,
         reasoning |-> normalizeText(
                          OptGet(Get(parsed, "criterion_reasoning"),
                                 <<c.id, side>>))]]

Failure(thrown, raw) == [thrown |-> thrown, raw |-> raw]

\* a variant of canonicalVerdict that does not swap the BA verdict back
VerdictNotSwapped(order, rawVerdict) == rawVerdict

\* runPairwiseEval: the verdict of a call in the canonical A/B naming
canonicalVerdict(order, rawVerdict) ==
    IF order = "AB" THEN rawVerdict
    ELSE IF rawVerdict = "A" THEN "B"
    ELSE IF rawVerdict = "B" THEN "A"
    ELSE "tie"

\* the object runPairwiseEval returns
PairwiseEvalOutput(rubric, order, parsed, scoresA, scoresB, rawVerdict) ==
    [thrown |-> "none",
     chainOfThought |-> normalizeText(Get(parsed, "chain_of_thought")),
     scoresA |-> scoresA,
     scoresB |-> scoresB,
     aggregateA |-> normalizeAggregateScore(
                       Get(parsed, "aggregate_score_A"),
                       computeAggregate(scoresA, rubric)),
     aggregateB |-> normalizeAggregateScore(
                       Get(parsed, "aggregate_score_B"),
                       computeAggregate(scoresB, rubric)),
     rawVerdict |-> rawVerdict,
     verdict |-> canonicalVerdict(order, rawVerdict)]

\* runPairwiseEval from the parsed object on
PairwiseEvalOf(rubric, order, parsed) ==
    PairwiseEvalOutput(rubric, order, parsed,
        extractPairwiseScores(parsed, rubric, IF order = "AB" THEN "A" ELSE "B"),
        extractPairwiseScores(parsed, rubric, IF order = "AB" THEN "B" ELSE "A"),
        normalizeVerdict(Get(parsed, "verdict")))

\* p: what parseJudgeJson(text) returned or threw
PairwiseEvalParsed(rubric, order, p) ==
    IF p.thrown # "none" THEN Failure(p.thrown, p.raw)
    ELSE PairwiseEvalOf(rubric, order, p.val)

runPairwiseEval(rubric, order, outcome) ==
    IF outcome.failed THEN Failure("ProviderError", None)
    ELSE PairwiseEvalParsed(rubric, order, parseJudgeJson(outcome.text))

\* the catch block of POST
PairwiseCatch(e) ==
    IF e.thrown = "JudgeJsonParseError" THEN InvalidJson(e.raw)
    ELSE Reject(500, e.thrown)

\* the checks of POST before the first judge call: the response that ends
\* the request, or None
PairwiseChecks(r) ==
    IF ~SchemaOk(r) THEN Reject(400, "Invalid request")
    ELSE IF ResolveRubric(r) = None THEN Reject(400, "Rubric not found")
    ELSE IF getModelById(r.modelId) = None THEN Reject(400, "Unknown model")
    ELSE IF getModelById(r.modelId).provider \notin r.keys
         THEN Reject(401, "No API key found")
    ELSE None

PairwiseResult(r, p, reversedVerdict, reversedChainOfThought,
               positionBiasDetected) ==
    [mode |-> "pairwise",
     detectPositionBias |-> r.detectPositionBias,
     chainOfThought |-> p.chainOfThought,
     criterionScoresA |-> p.scoresA,
     criterionScoresB |-> p.scoresB,
     aggregateScoreA |-> p.aggregateA,
     aggregateScoreB |-> p.aggregateB,
     verdict |-> p.verdict,
     reversedVerdict |-> reversedVerdict,
     reversedChainOfThought |-> reversedChainOfThought,
     positionBiasDetected |-> positionBiasDetected]

positionBias(primaryVerdict, reversedVerdict) ==
    primaryVerdict # reversedVerdict

Call(order, outcome) == [order |-> order, outcome |-> outcome]

Issue(order) == Append(calls, Call(order, None))

Returned(outcome) ==
    [calls EXCEPT ![Len(calls)] = Call(calls[Len(calls)].order, outcome)]

\* POST up to the first await generateText
PairwisePost(r) ==
    /\ pc = "idle"
    /\ r \in PairwiseRequests(2)
    /\ req' = r
    /\ primary' = None
    /\ IF PairwiseChecks(r) # None
       THEN /\ resp' = PairwiseChecks(r)
            /\ calls' = <<>>
            /\ pc' = "done"
       ELSE /\ resp' = None
            /\ calls' = <<Call("AB", None)>>
            /\ pc' = "primary"
    /\ UNCHANGED <<aggVars, storeVars, otherVars>>

\* a variant of PrimaryReturned that issues the BA call whether position
\* bias detection was asked for or not
PrimaryReturnedThenReversed(outcome, p, failure) ==
    IF p.thrown # "none"
    THEN /\ resp' = failure
         /\ primary' = None
         /\ calls' = Returned(outcome)
         /\ pc' = "done"
    ELSE /\ primary' = p
         /\ calls' = Append(Returned(outcome), Call("BA", None))
         /\ pc' = "reversed"
         /\ UNCHANGED resp

\* a variant of PrimaryReturned that issues the BA call before it looks at
\* what the AB call ended in
PrimaryReturnedAfterReversed(outcome, p, failure) ==
    IF req.detectPositionBias
    THEN IF p.thrown # "none"
         THEN /\ resp' = failure
              /\ primary' = None
              /\ calls' = Append(Returned(outcome), Call("BA", None))
              /\ pc' = "done"
         ELSE /\ primary' = p
              /\ calls' = Append(Returned(outcome), Call("BA", None))
              /\ pc' = "reversed"
              /\ UNCHANGED resp
    ELSE IF p.thrown # "none"
         THEN /\ resp' = failure
              /\ primary' = None
              /\ calls' = Returned(outcome)
              /\ pc' = "done"
         ELSE /\ resp' = Ok(PairwiseResult(req, p, Undefined, Undefined,
                                          Undefined))
              /\ primary' = p
              /\ calls' = Returned(outcome)
              /\ pc' = "done"

\* POST after the AB call: p is what runPairwiseEval returned or threw
PrimaryReturned(outcome, p, failure) ==
    IF p.thrown # "none"
    THEN /\ resp' = failure
         /\ primary' = None
         /\ calls' = Returned(outcome)
         /\ pc' = "done"
    ELSE IF req.detectPositionBias
    THEN /\ primary' = p
         /\ calls' = Append(Returned(outcome), Call("BA", None))
         /\ pc' = "reversed"
         /\ UNCHANGED resp
    ELSE /\ resp' = Ok(PairwiseResult(req, p, Undefined, Undefined, Undefined))
         /\ primary' = p
         /\ calls' = Returned(outcome)
         /\ pc' = "done"

\* POST after the BA call: the result of both calls
ReversedResult(reversed, positionBiasDetected) ==
    Ok(PairwiseResult(req, primary, reversed.verdict, reversed.chainOfThought,
                      positionBiasDetected))

\* the AB call returns; POST runs to the second await or to its end
PairwisePrimaryReturns(outcome) ==
    /\ pc = "primary"
    /\ req.route = "pairwise" /\ req.gen = 2
    /\ outcome \in JudgeOutcomes(ResolveRubric(req))
    /\ PrimaryReturned(outcome,
                       runPairwiseEval(ResolveRubric(req), "AB", outcome),
                       PairwiseCatch(runPairwiseEval(ResolveRubric(req), "AB",
                                                     outcome)))
    /\ UNCHANGED <<req, aggVars, storeVars, otherVars>>

\* POST after the BA call
ReversedReturned(reversed) ==
    IF reversed.thrown # "none"
    THEN resp' = PairwiseCatch(reversed)
    ELSE resp' = ReversedResult(reversed,
                                positionBias(primary.verdict, reversed.verdict))

\* the BA call returns; POST runs to its end
PairwiseReversedReturns(outcome) ==
    /\ pc = "reversed"
    /\ req.route = "pairwise" /\ req.gen = 2
    /\ outcome \in JudgeOutcomes(ResolveRubric(req))
    /\ ReversedReturned(runPairwiseEval(ResolveRubric(req), "BA", outcome))
    /\ calls' = Returned(outcome)
    /\ pc' = "done"
    /\ UNCHANGED <<req, primary, aggVars, storeVars, otherVars>>

-----------------------------------------------------------------------------
(* app/api/evaluate/pairwise, first generation *)

\* Number(x) || d
OrElse(n, d) == IF ~n.fin \/ n.v = 0 THEN d ELSE n.v

NumberOr(x, d) == OrElse(ToNumber(x), d)

\* String(x ?? "")
StringOrEmpty(x) == JsString(Coalesce(x, Str(<<>>)))

extractPairwiseScoresV1(parsed, rubric, side) ==
    [i \in 1..Len(rubric.criteria) |->
        LET c == rubric.criteria[i] IN
        [criterionId |-> c.id,
         score |-> NumberOr(OptGet(Get(parsed, "scores"), <<c.id, side>>), 0),
         maxScore |-> c.scoreRange,
         reasoning |-> StringOrEmpty(
                          OptGet(Get(parsed, "criterion_reasoning"),
                                 <<c.id, side>>))]]

\* String(parsed.verdict ?? "tie").toLowerCase(), compared with "a" and "b"
rawVerdictV1(parsed) ==
    LET v == ToLowerCase(JsString(Coalesce(Get(parsed, "verdict"),
                                           Str(<<"t", "i", "e">>))))
    IN IF v = <<"a">> THEN "A" ELSE IF v = <<"b">> THEN "B" ELSE "tie"

canonicalVerdictV1(order, rawVerdict) ==
    IF rawVerdict = "A" THEN (IF order = "AB" THEN "A" ELSE "B")
    ELSE IF rawVerdict = "B" THEN (IF order = "AB" THEN "B" ELSE "A")
    ELSE "tie"

PairwiseEvalOutputV1(rubric, order, parsed, scoresA, scoresB, rawVerdict) ==
    [thrown |-> "none",
     chainOfThought |-> StringOrEmpty(Get(parsed, "chain_of_thought")),
     scoresA |-> scoresA,
     scoresB |-> scoresB,
     aggregateA |-> NumberOr(Get(parsed, "aggregate_score_A"),
                             computeAggregateV1(scoresA, rubric)),
     aggregateB |-> NumberOr(Get(parsed, "aggregate_score_B"),
                             computeAggregateV1(scoresB, rubric)),
     rawVerdict |-> rawVerdict,
     verdict |-> canonicalVerdictV1(order, rawVerdict)]

PairwiseEvalOfV1(rubric, order, parsed) ==
    PairwiseEvalOutputV1(rubric, order, parsed,
        extractPairwiseScoresV1(parsed, rubric, IF order = "AB" THEN "A" ELSE "B"),
        extractPairwiseScoresV1(parsed, rubric, IF order = "AB" THEN "B" ELSE "A"),
        rawVerdictV1(parsed))

\* j: what JSON.parse returned or threw
PairwiseEvalParsedV1(rubric, order, j) ==
    IF j.thrown # "none" THEN Failure(j.thrown, None)
    ELSE IF GetThrows(j.val) THEN Failure("TypeError", None)
    ELSE PairwiseEvalOfV1(rubric, order, j.val)

runPairwiseEvalV1(rubric, order, outcome) ==
    IF outcome.failed THEN Failure("ProviderError", None)
    ELSE PairwiseEvalParsedV1(rubric, order, JsonParse(StripFences(outcome.text)))

\* the catch block of the first-generation routes
CatchV1(e) == Reject(500, e.thrown)

\* the checks of the first-generation routes before the judge call
ChecksV1(r) ==
    IF ~SchemaOk(r) THEN Reject(400, "Invalid request")
    ELSE IF ResolveRubric(r) = None THEN Reject(400, "Rubric not found")
    ELSE IF resolveProvider(r.modelId) = "throws"
         THEN Reject(500, "Unknown provider for model")
    ELSE IF resolveProvider(r.modelId) \notin r.keys
         THEN Reject(401, "No API key found")
    ELSE IF getModelById(r.modelId) = None THEN Reject(400, "Unknown model")
    ELSE None

positionBiasV1(primaryVerdict, reversedVerdict) ==
    /\ primaryVerdict # "tie"
    /\ reversedVerdict # "tie"
    /\ primaryVerdict # reversedVerdict

PairwisePostV1(r) ==
    /\ pc = "idle"
    /\ r \in PairwiseRequests(1)
    /\ req' = r
    /\ primary' = None
    /\ IF ChecksV1(r) # None
       THEN /\ resp' = ChecksV1(r)
            /\ calls' = <<>>
            /\ pc' = "done"
       ELSE /\ resp' = None
            /\ calls' = <<Call("AB", None)>>
            /\ pc' = "primary"
    /\ UNCHANGED <<aggVars, storeVars, otherVars>>

PairwisePrimaryReturnsV1(outcome) ==
    /\ pc = "primary"
    /\ req.route = "pairwise" /\ req.gen = 1
    /\ outcome \in JudgeOutcomes(ResolveRubric(req))
    /\ PrimaryReturned(outcome,
                       runPairwiseEvalV1(ResolveRubric(req), "AB", outcome),
                       CatchV1(runPairwiseEvalV1(ResolveRubric(req), "AB",
                                                 outcome)))
    /\ UNCHANGED <<req, aggVars, storeVars, otherVars>>

ReversedReturnedV1(reversed) ==
    IF reversed.thrown # "none"
    THEN resp' = CatchV1(reversed)
    ELSE resp' = ReversedResult(reversed,
                                positionBiasV1(primary.verdict, reversed.verdict))

PairwiseReversedReturnsV1(outcome) ==
    /\ pc = "reversed"
    /\ req.route = "pairwise" /\ req.gen = 1
    /\ outcome \in JudgeOutcomes(ResolveRubric(req))
    /\ ReversedReturnedV1(runPairwiseEvalV1(ResolveRubric(req), "BA", outcome))
    /\ calls' = Returned(outcome)
    /\ pc' = "done"
    /\ UNCHANGED <<req, primary, aggVars, storeVars, otherVars>>

-----------------------------------------------------------------------------
(* app/api/evaluate/single, both generations *)

SingleResult(criterionScores, aggregateScore, chainOfThought) ==
    [mode |-> "single",
     chainOfThought |-> chainOfThought,
     criterionScores |-> criterionScores,
     aggregateScore |-> aggregateScore]

\* rubric.criteria.map(...) of the routes that normalise
SingleScores(parsedJson, rubric) ==
    [i \in 1..Len(rubric.criteria) |->
        LET c == rubric.criteria[i] IN
        [criterionId |-> c.id,
         score |-> normalizeCriterionScore(
                      OptGet(Get(parsedJson, "scores"), <<c.id, "">>),
                      c.scoreRange),
         maxScore |-> c.scoreRange,
         reasoning |-> normalizeText(
                          OptGet(Get(parsedJson, "criterion_reasoning"),
                                 <<c.id, "">>))]]

\* rubric.criteria.map(...) of the first-generation routes
SingleScoresV1(parsedJson, rubric) ==
    [i \in 1..Len(rubric.criteria) |->
        LET c == rubric.criteria[i] IN
        [criterionId |-> c.id,
         score |-> NumberOr(OptGet(Get(parsedJson, "scores"), <<c.id, "">>), 0),
         maxScore |-> c.scoreRange,
         reasoning |-> StringOrEmpty(
                          OptGet(Get(parsedJson, "criterion_reasoning"),
                                 <<c.id, "">>))]]

\* POST from the judge's reply to its end
SingleFinish(rubric, outcome) ==
    IF outcome.failed THEN Reject(500, "ProviderError")
    ELSE
    LET p == parseJudgeJson(outcome.text) IN
    IF p.thrown # "none" THEN InvalidJson(p.raw)
    ELSE
    LET criterionScores == SingleScores(p.val, rubric)
    IN Ok(SingleResult(criterionScores,
                       normalizeAggregateScore(
                           Get(p.val, "aggregate_score"),
                           computeAggregateFromScores(criterionScores, rubric)),
                       normalizeText(Get(p.val, "chain_of_thought"))))

SingleFinishV1(rubric, outcome) ==
    IF outcome.failed THEN Reject(500, "ProviderError")
    ELSE
    LET j == JsonParse(StripFences(outcome.text)) IN
    IF j.thrown # "none" THEN InvalidJson(outcome.text)
    ELSE IF GetThrows(j.val) THEN Reject(500, "TypeError")
    ELSE
    LET criterionScores == SingleScoresV1(j.val, rubric)
    IN Ok(SingleResult(criterionScores,
                       NumberOr(Get(j.val, "aggregate_score"),
                                computeAggregateFromScoresV1(criterionScores,
                                                             rubric)),
                       StringOrEmpty(Get(j.val, "chain_of_thought"))))

\* a route with one judge call, up to its await generateText
StartOne(r, checks) ==
    /\ pc = "idle"
    /\ req' = r
    /\ primary' = None
    /\ IF checks # None
       THEN /\ resp' = checks
            /\ calls' = <<>>
            /\ pc' = "done"
       ELSE /\ resp' = None
            /\ calls' = <<Call("AB", None)>>
            /\ pc' = "judge"
    /\ UNCHANGED <<aggVars, storeVars, otherVars>>

\* a route with one judge call, from the reply to its end
FinishOne(outcome, response) ==
    /\ resp' = response
    /\ calls' = Returned(outcome)
    /\ pc' = "done"
    /\ UNCHANGED <<req, primary, aggVars, storeVars, otherVars>>

SinglePost(r) ==
    /\ r \in SingleRequests(2)
    /\ StartOne(r, PairwiseChecks(r))

SingleJudgeReturns(outcome) ==
    /\ pc = "judge"
    /\ req.route = "single" /\ req.gen = 2
    /\ outcome \in JudgeOutcomes(ResolveRubric(req))
    /\ FinishOne(outcome, SingleFinish(ResolveRubric(req), outcome))

SinglePostV1(r) ==
    /\ r \in SingleRequests(1)
    /\ StartOne(r, ChecksV1(r))

SingleJudgeReturnsV1(outcome) ==
    /\ pc = "judge"
    /\ req.route = "single" /\ req.gen = 1
    /\ outcome \in JudgeOutcomes(ResolveRubric(req))
    /\ FinishOne(outcome, SingleFinishV1(ResolveRubric(req), outcome))

-----------------------------------------------------------------------------
(* app/api/evaluate/batch, both generations: one row, single or pairwise *)

BatchFinish(r, rubric, outcome) ==
    IF outcome.failed THEN Reject(500, "ProviderError")
    ELSE
    LET p == parseJudgeJson(outcome.text) IN
    IF p.thrown # "none" THEN InvalidJson(p.raw)
    ELSE IF r.mode = "single"
    THEN LET criterionScores == SingleScores(p.val, rubric)
         IN Ok(SingleResult(criterionScores,
                   normalizeAggregateScore(
                       Get(p.val, "aggregate_score"),
                       computeAggregateBatch(criterionScores, rubric)),
                   normalizeText(Get(p.val, "chain_of_thought"))))
    ELSE LET criterionScoresA == extractPairwiseScores(p.val, rubric, "A")
             criterionScoresB == extractPairwiseScores(p.val, rubric, "B")
             rawVerdict == normalizeVerdict(Get(p.val, "verdict"))
         IN Ok(PairwiseResult(r,
                   [chainOfThought |-> normalizeText(Get(p.val, "chain_of_thought")),
                    scoresA |-> criterionScoresA,
                    scoresB |-> criterionScoresB,
                    aggregateA |-> normalizeAggregateScore(
                                      Get(p.val, "aggregate_score_A"),
                                      computeAggregateBatch(criterionScoresA, rubric)),
                    aggregateB |-> normalizeAggregateScore(
                                      Get(p.val, "aggregate_score_B"),
                                      computeAggregateBatch(criterionScoresB, rubric)),
                    verdict |-> rawVerdict],
                   Undefined, Undefined, Undefined))

BatchFinishV1(r, rubric, outcome) ==
    IF outcome.failed THEN Reject(500, "ProviderError")
    ELSE
    LET j == JsonParse(StripFences(outcome.text)) IN
    IF j.thrown # "none" THEN Reject(500, j.thrown)
    ELSE IF GetThrows(j.val) THEN Reject(500, "TypeError")
    ELSE IF r.mode = "single"
    THEN LET criterionScores == SingleScoresV1(j.val, rubric)
         IN Ok(SingleResult(criterionScores,
                   NumberOr(Get(j.val, "aggregate_score"),
                            computeAggregateBatchV1(criterionScores, rubric)),
                   StringOrEmpty(Get(j.val, "chain_of_thought"))))
    ELSE LET criterionScoresA == extractPairwiseScoresV1(j.val, rubric, "A")
             criterionScoresB == extractPairwiseScoresV1(j.val, rubric, "B")
         IN Ok(PairwiseResult(r,
                   [chainOfThought |-> StringOrEmpty(Get(j.val, "chain_of_thought")),
                    scoresA |-> criterionScoresA,
                    scoresB |-> criterionScoresB,
                    aggregateA |-> NumberOr(Get(j.val, "aggregate_score_A"),
                                      computeAggregateBatchV1(criterionScoresA, rubric)),
                    aggregateB |-> NumberOr(Get(j.val, "aggregate_score_B"),
                                      computeAggregateBatchV1(criterionScoresB, rubric)),
                    verdict |-> rawVerdictV1(j.val)],
                   Undefined, Undefined, Undefined))

BatchPost(r) ==
    /\ r \in BatchRequests(2)
    /\ StartOne(r, PairwiseChecks(r))

BatchJudgeReturns(outcome) ==
    /\ pc = "judge"
    /\ req.route = "batch" /\ req.gen = 2
    /\ outcome \in JudgeOutcomes(ResolveRubric(req))
    /\ FinishOne(outcome, BatchFinish(req, ResolveRubric(req), outcome))

BatchPostV1(r) ==
    /\ r \in BatchRequests(1)
    /\ StartOne(r, ChecksV1(r))

BatchJudgeReturnsV1(outcome) ==
    /\ pc = "judge"
    /\ req.route = "batch" /\ req.gen = 1
    /\ outcome \in JudgeOutcomes(ResolveRubric(req))
    /\ FinishOne(outcome, BatchFinishV1(req, ResolveRubric(req), outcome))

-----------------------------------------------------------------------------
(* The evaluation routes, one request at a time *)

InitEvalIdle ==
    /\ pc = "idle"
    /\ req = None
    /\ primary = None
    /\ resp = None
    /\ calls = <<>>

InitAggIdle ==
    /\ aggIn = None
    /\ aggOut = None

InitStoreEmpty ==
    /\ customRubrics = <<>>
    /\ rubricVersions = <<>>
    /\ experimentRuns = <<>>
    /\ lastOp = None
    /\ now = 1

InitFpIdle ==
    /\ fpIn = None
    /\ fpOut = None

\* memory.datasets and memory.datasetVersions as the dataset import left
\* them: dataset d1 with two versions, dataset d2 without any
SeedDatasets ==
    << [id |-> <<"d", "1">>, name |-> <<"D">>],
       [id |-> <<"d", "2">>, name |-> <<"E">>] >>

SeedVersions(datasetId) ==
    IF datasetId = <<"d", "1">>
    THEN << [id |-> <<"v", "1">>, hash |-> <<"h", "1">>,
             items |-> <<<<"i", "1">>, <<"i", "2">>>>],
            [id |-> <<"v", "2">>, hash |-> <<"h", "2">>,
             items |-> <<<<"i", "1">>, <<"i", "2">>, <<"i", "3">>>>] >>
    ELSE <<>>

\* the lengths of the texts of the items of the versions: prompt.length,
\* and the length of (item.response ?? "") and of the two like it
SeedItem(itemId) ==
    IF itemId = <<"i", "1">>
    THEN [prompt |-> 100, response |-> 200, responseA |-> 0, responseB |-> 0]
    ELSE IF itemId = <<"i", "2">>
    THEN [prompt |-> 10, response |-> 0, responseA |-> 300, responseB |-> 322]
    ELSE [prompt |-> 402, response |-> 90, responseA |-> 90, responseB |-> 91]

\* the experiment-run route before its first request
InitRunsIdle ==
    /\ memory = [datasets |-> SeedDatasets,
                 datasetVersions |->
                    [d \in {<<"d", "1">>, <<"d", "2">>} |-> SeedVersions(d)],
                 experimentRuns |-> <<>>]
    /\ runReq = None
    /\ runResp = None
    /\ runLocals = None
    /\ nanoids = 0
    /\ runClock = 0

InitCmpIdle ==
    /\ cmpIn = None
    /\ cmpOut = None

\* the batch page as its useState and useRef calls leave it
InitPageIdle ==
    /\ rows = <<>>
    /\ running = FALSE
    /\ done = FALSE
    /\ abortRef = FALSE
    /\ handleRunPc = "idle"
    /\ rowIndex = 0
    /\ toast = ""

\* the rubrics page before it is opened
InitEdIdle ==
    /\ editor = [editingId |-> Absent, name |-> <<>>, description |-> <<>>,
                 criteria |-> <<>>, ids |-> 0]

InitFnIdle ==
    /\ fnIn = None
    /\ fnOut = None

\* the store's history as create() leaves it
InitHistIdle == history = <<>>

InitExtIdle == InitEdIdle /\ InitFnIdle /\ InitHistIdle

InitOthersIdle ==
    InitFpIdle /\ InitRunsIdle /\ InitCmpIdle /\ InitPageIdle /\ InitExtIdle

InitEval ==
    /\ InitEvalIdle
    /\ InitAggIdle
    /\ InitStoreEmpty
    /\ InitOthersIdle

\* the judge replies possible for the request in flight
Replies == JudgeOutcomes(ResolveRubric(req))

NextEval ==
    \/ pc = "idle" /\ \E r \in PairwiseRequests(2) : PairwisePost(r)
    \/ pc = "idle" /\ \E r \in PairwiseRequests(1) : PairwisePostV1(r)
    \/ pc = "idle" /\ \E r \in SingleRequests(2) : SinglePost(r)
    \/ pc = "idle" /\ \E r \in SingleRequests(1) : SinglePostV1(r)
    \/ pc = "idle" /\ \E r \in BatchRequests(2) : BatchPost(r)
    \/ pc = "idle" /\ \E r \in BatchRequests(1) : BatchPostV1(r)
    \/ pc = "primary" /\ \E outcome \in Replies : PairwisePrimaryReturns(outcome)
    \/ pc = "reversed" /\ \E outcome \in Replies : PairwiseReversedReturns(outcome)
    \/ pc = "primary" /\ \E outcome \in Replies : PairwisePrimaryReturnsV1(outcome)
    \/ pc = "reversed" /\ \E outcome \in Replies : PairwiseReversedReturnsV1(outcome)
    \/ pc = "judge" /\ \E outcome \in Replies : SingleJudgeReturns(outcome)
    \/ pc = "judge" /\ \E outcome \in Replies : SingleJudgeReturnsV1(outcome)
    \/ pc = "judge" /\ \E outcome \in Replies : BatchJudgeReturns(outcome)
    \/ pc = "judge" /\ \E outcome \in Replies : BatchJudgeReturnsV1(outcome)

SpecEval == InitEval /\ [][NextEval]_vars

-----------------------------------------------------------------------------
(* Properties of the evaluation routes *)

\* the request has ended with a result
Succeeded == pc = "done" /\ resp.status = 200

\* the request passed its checks and its last judge call returned a text
LastReplyIsText ==
    /\ pc \in {"reversed", "done"}
    /\ calls # <<>>
    /\ LET last == IF pc = "done" THEN calls[Len(calls)] ELSE calls[1]
       IN ~last.outcome.failed

\* the text of the last judge call that returned
LastReply == IF pc = "done" THEN calls[Len(calls)].outcome.text
             ELSE calls[1].outcome.text

\* the text is JSON, fenced or not, and its top level is an object
IsJsonObject(text) == text.body.json /\ text.body.val.t = "object"

\* the object of the judge's reply in call i, when it is one
ReplyObject(i) == calls[i].outcome.text.body.val

\* the criterion scores a result carries
ResultScores(result) ==
    IF result.mode = "single"
    THEN {result.criterionScores[i] : i \in DOMAIN result.criterionScores}
    ELSE {result.criterionScoresA[i] : i \in DOMAIN result.criterionScoresA}
         \cup {result.criterionScoresB[i] : i \in DOMAIN result.criterionScoresB}

\* the verdict string of the judge's reply in call i, read case-insensitively:
\* "A", "B", "tie", or "other" when it is no such string
RawLetter(i) ==
    LET v == Get(ReplyObject(i), "verdict")
        low == IF v.t = "string" THEN ToLowerCase(v.v) ELSE <<>>
    IN IF low = <<"a">> THEN "A"
       ELSE IF low = <<"b">> THEN "B"
       ELSE IF low = <<"t", "i", "e">> THEN "tie"
       ELSE "other"

BiasChecked ==
    Succeeded /\ req.route = "pairwise" /\ req.detectPositionBias

\* C1: whenever a pairwise evaluation with position-bias detection ends with
\* a result, positionBiasDetected is exactly (verdict # reversedVerdict), for
\* every combination of the two canonical verdicts, ties included.
C1_BiasIsVerdictMismatch ==
    BiasChecked =>
        resp.result.positionBiasDetected
            = (resp.result.verdict # resp.result.reversedVerdict)

\* C2: pairwise order invariance.  When the judge's verdict letters in the
\* AB and BA calls name the same underlying response (A then B, B then A,
\* tie then tie), reversedVerdict equals verdict and positionBiasDetected is
\* false; when they name the same position (A and A, B and B), the
\* canonical reversed verdict is the opposite letter and positionBiasDetected
\* is true.
C2_OrderInvariance ==
    BiasChecked =>
        LET ab == RawLetter(1)
            ba == RawLetter(2)
            r == resp.result
        IN /\ (<<ab, ba>> \in {<<"A", "B">>, <<"B", "A">>, <<"tie", "tie">>}
                => /\ r.verdict = ab
                   /\ r.reversedVerdict = r.verdict
                   /\ r.positionBiasDetected = FALSE)
           /\ (<<ab, ba>> \in {<<"A", "A">>, <<"B", "B">>}
                => /\ r.verdict = ab
                   /\ r.reversedVerdict = (IF ab = "A" THEN "B" ELSE "A")
                   /\ r.positionBiasDetected = TRUE)

\* C2 witness: the judge picked the second position in the AB call and the
\* first position in the BA call, so both calls name response B.
C2_Witness ==
    /\ BiasChecked
    /\ RawLetter(1) = "B" /\ RawLetter(2) = "A"
    /\ resp.result.verdict = "B" /\ resp.result.reversedVerdict = "B"
    /\ resp.result.positionBiasDetected = FALSE

\* C3: every criterion score of every result of the single, pairwise and
\* batch routes is an integer in [1, maxScore] of its criterion.
C3_ScoresInRange ==
    Succeeded =>
        \A cs \in ResultScores(resp.result) :
            /\ cs.score % 100 = 0
            /\ cs.score >= 100
            /\ cs.score <= 100 * cs.maxScore

\* the aggregate C4 expects for a judge field and the reported scores: the
\* field clamped to [0, 100] (and rounded to one decimal, the result's
\* precision) when it coerces to a finite number, else the aggregation
\* engine's value for the scores
ExpectedAggregate(field, scores) ==
    IF ToNumber(field).fin
    THEN RoundToTenth(clamp(ToNumber(field).v, 0, 10000))
    ELSE computeAggregateScore(scores, ResolveRubric(req).criteria)

\* C4: a reported aggregate is the judge's aggregate field clamped to
\* [0, 100] when the field coerces to a finite number, the aggregation
\* engine's value for the reported criterion scores otherwise, and lies in
\* [0, 100] in both cases.
C4_AggregateFromFieldOrEngine ==
    Succeeded =>
        LET r == resp.result
            o == ReplyObject(1)
        IN IF r.mode = "single"
           THEN /\ r.aggregateScore
                     = ExpectedAggregate(Get(o, "aggregate_score"),
                                         r.criterionScores)
                /\ r.aggregateScore >= 0 /\ r.aggregateScore <= 10000
           ELSE /\ r.aggregateScoreA
                     = ExpectedAggregate(Get(o, "aggregate_score_A"),
                                         r.criterionScoresA)
                /\ r.aggregateScoreB
                     = ExpectedAggregate(Get(o, "aggregate_score_B"),
                                         r.criterionScoresB)
                /\ r.aggregateScoreA >= 0 /\ r.aggregateScoreA <= 10000
                /\ r.aggregateScoreB >= 0 /\ r.aggregateScoreB <= 10000

\* the request is handled by a route that parses with parseJudgeJson
UsesJudgeOutput == req.gen = 2

C7_NonObjectReplyIs502 ==
    (LastReplyIsText /\ ~IsJsonObject(LastReply)) =>
        /\ pc = "done"
        /\ resp.status = 502
        /\ resp.raw = LastReply
        /\ resp.result = None

\* C8: a request whose model id is not in the catalogue is answered 400
\* whatever credentials are present, and a request with a known model and
\* no credential for its provider is answered 401; neither issues a judge
\* call.
C8_UnknownModel400MissingKey401 ==
    pc # "idle" =>
        /\ getModelById(req.modelId) = None
            => pc = "done" /\ resp.status = 400 /\ calls = <<>>
        /\ (/\ getModelById(req.modelId) # None
            /\ getModelById(req.modelId).provider \notin req.keys
            /\ SchemaOk(req)
            /\ ResolveRubric(req) # None)
            => pc = "done" /\ resp.status = 401 /\ calls = <<>>

-----------------------------------------------------------------------------
(* The aggregation functions on their own *)

\* a rubric with the weights {0.5, 0.5}
HalfRubric ==
    [id |-> "custom-2",
     name |-> "Halves",
     description |-> "",
     criteria |->
        << [id |-> "h1", weight |-> 50000, scoreRange |-> 5],
           [id |-> "h2", weight |-> 50000, scoreRange |-> 5] >>,
     isBuiltIn |-> FALSE,
     createdAt |-> 1]

\* the score record a route builds for criterion c, holding v points
ScoreFor(c, v) ==
    [criterionId |-> c.id, score |-> 100 * v, maxScore |-> c.scoreRange,
     reasoning |-> <<>>]

\* the points tried for a criterion of the given range
ScoreValues(scoreRange) == IF scoreRange = 5 THEN {1, 2, 4, 5} ELSE {1, 7, 10}

\* a score whose criterion the rubric no longer has
StrayScore ==
    [criterionId |-> "gone", score |-> 300, maxScore |-> 5, reasoning |-> <<>>]

\* the score lists for the criteria, in rubric order, any criterion unscored
RECURSIVE ScoreLists(_)
ScoreLists(criteria) ==
    IF criteria = <<>> THEN {<<>>}
    ELSE LET rest == ScoreLists(Tail(criteria))
         IN rest \cup { <<ScoreFor(Head(criteria), v)>> \o r :
                          v \in ScoreValues(Head(criteria).scoreRange),
                          r \in rest }

AggInputs ==
    UNION { { [scores |-> s, rubric |-> r] : s \in ScoreLists(r.criteria) }
            \cup { [scores |-> <<StrayScore>> \o s, rubric |-> r] :
                     s \in ScoreLists(r.criteria) } :
            r \in {HalfRubric, SnapshotRubric, BuiltInOverall} }

InitAgg ==
    /\ aggIn \in AggInputs
    /\ aggOut = None
    /\ InitEvalIdle
    /\ InitStoreEmpty
    /\ InitOthersIdle

\* every aggregation function of the source applied to the input
Aggregate ==
    /\ aggOut = None
    /\ aggOut' =
        [utils |-> computeAggregateScore(aggIn.scores, aggIn.rubric.criteria),
         single |-> computeAggregateFromScores(aggIn.scores, aggIn.rubric),
         pairwise |-> computeAggregate(aggIn.scores, aggIn.rubric),
         batch |-> computeAggregateBatch(aggIn.scores, aggIn.rubric),
         singleV1 |-> computeAggregateFromScoresV1(aggIn.scores, aggIn.rubric),
         pairwiseV1 |-> computeAggregateV1(aggIn.scores, aggIn.rubric),
         batchV1 |-> computeAggregateBatchV1(aggIn.scores, aggIn.rubric)]
    /\ UNCHANGED <<aggIn, evalVars, storeVars, otherVars>>

NextAgg == Aggregate

SpecAgg == InitAgg /\ [][NextAgg]_vars

\* the positions of the scores whose criterionId is a criterion of the rubric
MatchedScores ==
    { i \in DOMAIN aggIn.scores :
        \E j \in DOMAIN aggIn.rubric.criteria :
            aggIn.rubric.criteria[j].id = aggIn.scores[i].criterionId }

\* the weight of the criterion that score i matches
MatchedWeight(i) ==
    LET j == CHOOSE k \in DOMAIN aggIn.rubric.criteria :
                aggIn.rubric.criteria[k].id = aggIn.scores[i].criterionId
    IN aggIn.rubric.criteria[j].weight

RECURSIVE SumOver(_, _)
SumOver(f, S) ==
    IF S = {} THEN 0
    ELSE LET x == CHOOSE y \in S : TRUE IN f[x] + SumOver(f, S \ {x})

\* the sum of (score / maxScore * 100) * weight over the matched scores; with
\* scores in hundredths and weights in hundred-thousandths, the value is
\* this integer over 1000000
MatchedNumerator ==
    SumOver([i \in MatchedScores |->
                (aggIn.scores[i].score * 10 * MatchedWeight(i))
                    \div aggIn.scores[i].maxScore],
            MatchedScores)

\* the sum of the weights of the matched criteria, in hundred-thousandths
MatchedDenominator ==
    SumOver([i \in MatchedScores |-> MatchedWeight(i)], MatchedScores)

\* v, in hundredths, is MatchedNumerator / MatchedDenominator rounded to the
\* nearest tenth (halves up), or 0 when nothing matched
IsMatchedMean(v) ==
    IF MatchedDenominator = 0 THEN v = 0
    ELSE /\ v % 10 = 0
         /\ 2 * (v \div 10) * MatchedDenominator - MatchedDenominator
                <= 2 * MatchedNumerator
         /\ 2 * MatchedNumerator
                < 2 * (v \div 10) * MatchedDenominator + MatchedDenominator

\* C5: the aggregate is the weighted sum of score/maxScore*100 over exactly
\* the scores that match a rubric criterion, divided by the sum of the
\* matched weights; so scored criteria that all hold the maximum aggregate
\* to 100 however many criteria are unscored, and weights {0.5, 0.5} with
\* scores 4/5 and 2/5 aggregate to 60.0.
C5_DividesByMatchedWeights ==
    aggOut # None =>
        \A f \in DOMAIN aggOut :
            /\ IsMatchedMean(aggOut[f])
            /\ (/\ MatchedScores # {}
                /\ \A i \in MatchedScores :
                      aggIn.scores[i].score = 100 * aggIn.scores[i].maxScore)
                => aggOut[f] = 10000
            /\ (/\ aggIn.rubric = HalfRubric
                /\ aggIn.scores = <<ScoreFor(HalfRubric.criteria[1], 4),
                                    ScoreFor(HalfRubric.criteria[2], 2)>>)
                => aggOut[f] = 6000

\* C5 witness: one of the four criteria of the built-in rubric holds the
\* maximum score, three are unscored, a score without a criterion is
\* present, and the aggregate is 100.
C5_Witness ==
    /\ aggOut # None
    /\ aggIn.rubric = BuiltInOverall
    /\ Len(aggIn.scores) = 2
    /\ aggIn.scores[1] = StrayScore
    /\ aggIn.scores[2].score = 1000
    /\ aggOut.single = 10000
    /\ aggOut.utils = 10000

-----------------------------------------------------------------------------
(* lib/rubric-versioning and the store's rubric actions.  The strings that  *)
(* are hashed (ids, names, descriptions) are sequences of one-character    *)
(* strings of printable ASCII without the quote and the backslash, so      *)
(* JSON.stringify escapes nothing in them.                                 *)

\* the printable ASCII characters, from code 32 on; the backslash (92) and
\* the backtick (96), which no string of the model holds, are spelled out
Ascii ==
    <<" ", "!", "\"", "#", "$", "%", "&", "'", "(", ")", "*", "+", ",", "-",
      ".", "/", "0", "1", "2", "3", "4", "5", "6", "7", "8", "9", ":", ";",
      "<", "=", ">", "?", "@", "A", "B", "C", "D", "E", "F", "G", "H", "I",
      "J", "K", "L", "M", "N", "O", "P", "Q", "R", "S", "T", "U", "V", "W",
      "X", "Y", "Z", "[", "backslash", "]", "^", "_", "backtick", "a", "b", "c", "d", "e",
      "f", "g", "h", "i", "j", "k", "l", "m", "n", "o", "p", "q", "r", "s",
      "t", "u", "v", "w", "x", "y", "z", "{", "|", "}", "~">>

charCodeAt(c) ==
    IF c = "\n" THEN 10 ELSE 31 + (CHOOSE i \in 1..Len(Ascii) : Ascii[i] = c)

\* a ^ b on the low n bits
RECURSIVE XorBits(_, _, _)
XorBits(a, b, n) ==
    IF n = 0 THEN 0
    ELSE ((a + b) % 2) + 2 * XorBits(a \div 2, b \div 2, n - 1)

\* hash after "hash ^= code", as the two 16-bit halves of its low 32 bits
HashXor(h, code) ==
    [hi |-> h.hi, lo |-> h.lo - (h.lo % 256) + XorBits(h.lo % 256, code, 8)]

\* hash += (hash << 1) + (hash << 4) + (hash << 7) + (hash << 8) + (hash << 24):
\* hash * 16777619 modulo 2^32, and 16777619 is 256 * 65536 + 403
HashMix(h) ==
    [hi |-> (h.hi * 403 + h.lo * 256 + ((h.lo * 403) \div 65536)) % 65536,
     lo |-> (h.lo * 403) % 65536]

\* the low 32 bits of a number, as two 16-bit halves
Int32 == [hi : 0..65535, lo : 0..65535]

\* hash after the loop of hashString; loop[h, from, to] is the hash after
\* the characters from..to, entered with h, and halves the range to keep
\* the evaluation shallow.  "let hash = 2166136261" is 33052 * 65536 + 40389
HashAfter(input) ==
    LET loop[h \in Int32, from \in 1..(Len(input) + 1), to \in 0..Len(input)] ==
            IF from > to THEN h
            ELSE IF from = to THEN HashMix(HashXor(h, charCodeAt(input[from])))
            ELSE loop[loop[h, from, (from + to) \div 2],
                      ((from + to) \div 2) + 1, to]
    IN loop[[hi |-> 33052, lo |-> 40389], 1, Len(input)]

HexDigits ==
    <<"0", "1", "2", "3", "4", "5", "6", "7", "8", "9",
      "a", "b", "c", "d", "e", "f">>

\* four hexadecimal digits of a 16-bit number
Hex4(n) ==
    <<HexDigits[(n \div 4096) + 1], HexDigits[((n \div 256) % 16) + 1],
      HexDigits[((n \div 16) % 16) + 1], HexDigits[(n % 16) + 1]>>

\* (hash >>> 0).toString(16).padStart(8, "0")
HashHex(h) == Hex4(h.hi) \o Hex4(h.lo)

hashString(input) == HashHex(HashAfter(input))

\* JSON.stringify of a string
JsonString(s) == <<"\"">> \o s \o <<"\"">>

RECURSIVE StripZeros(_)
StripZeros(s) ==
    IF s # <<>> /\ s[Len(s)] = "0" THEN StripZeros(SubSeq(s, 1, Len(s) - 1))
    ELSE s

\* JSON.stringify of a number n / 10000, n >= 0
JsonNumber(n) ==
    NatToDigits(n \div 10000)
    \o (IF n % 10000 = 0 THEN <<>>
        ELSE <<".">> \o StripZeros(<<Digits[((n % 10000) \div 1000) + 1],
                                     Digits[((n \div 100) % 10) + 1],
                                     Digits[((n \div 10) % 10) + 1],
                                     Digits[(n % 10) + 1]>>))

\* Math.round(weight * 10_000), weight in hundred-thousandths
RoundWeight(weight) == (weight + 5) \div 10

\* a variant of NormalizedRubric that does not trim the names
NormalizedUntrimmed(rubric) ==
    [id |-> rubric.id,
     name |-> rubric.name,
     description |-> Trim(rubric.description),
     criteria |->
        [i \in 1..Len(rubric.criteria) |->
            [id |-> rubric.criteria[i].id,
             name |-> rubric.criteria[i].name,
             description |-> Trim(rubric.criteria[i].description),
             weight |-> RoundWeight(rubric.criteria[i].weight),
             scoreRange |-> rubric.criteria[i].scoreRange]]]

\* the object rubricFingerprint passes to JSON.stringify
NormalizedRubric(rubric) ==
    [id |-> rubric.id,
     name |-> Trim(rubric.name),
     description |-> Trim(rubric.description),
     criteria |->
        [i \in 1..Len(rubric.criteria) |->
            [id |-> rubric.criteria[i].id,
             name |-> Trim(rubric.criteria[i].name),
             description |-> Trim(rubric.criteria[i].description),
             weight |-> RoundWeight(rubric.criteria[i].weight),
             scoreRange |-> rubric.criteria[i].scoreRange]]]

JsonCriterion(c) ==
    <<"{", "\"", "i", "d", "\"", ":">> \o JsonString(c.id)
    \o <<",", "\"", "n", "a", "m", "e", "\"", ":">> \o JsonString(c.name)
    \o <<",", "\"", "d", "e", "s", "c", "r", "i", "p", "t", "i", "o", "n", "\"",
        ":">> \o JsonString(c.description)
    \o <<",", "\"", "w", "e", "i", "g", "h", "t", "\"", ":">> \o JsonNumber(c.weight)
    \o <<",", "\"", "s", "c", "o", "r", "e", "R", "a", "n", "g", "e", "\"", ":">> \o NatToDigits(c.scoreRange)
    \o <<"}">>

\* the elements of the criteria array up to the n-th, joined with ","
RECURSIVE JsonCriteriaUpTo(_, _)
JsonCriteriaUpTo(criteria, n) ==
    IF n = 0 THEN <<>>
    ELSE IF n = 1 THEN JsonCriterion(criteria[1])
    ELSE JsonCriteriaUpTo(criteria, n - 1) \o <<",">>
         \o JsonCriterion(criteria[n])

\* JSON.stringify(normalized)
JsonRubric(normalized) ==
    <<"{", "\"", "i", "d", "\"", ":">> \o JsonString(normalized.id)
    \o <<",", "\"", "n", "a", "m", "e", "\"", ":">> \o JsonString(normalized.name)
    \o <<",", "\"", "d", "e", "s", "c", "r", "i", "p", "t", "i", "o", "n", "\"",
        ":">> \o JsonString(normalized.description)
    \o <<",", "\"", "c", "r", "i", "t", "e", "r", "i", "a", "\"", ":", "[">>
    \o JsonCriteriaUpTo(normalized.criteria, Len(normalized.criteria))
    \o <<"]", "}">>

\* rubricFingerprint before memoisation: the hash of the canonical JSON
FingerprintOf(normalized) == hashString(JsonRubric(normalized))

\* lib/rubric-versioning: buildRubricVersionRef, given the fingerprint; the
\* versionId, the parts rubric.id, versionNumber and fingerprint joined by
\* ":v" and ":", is held as the triple of its parts
VersionRef(rubric, versionNumber, fingerprint, createdAt) ==
    [rubricId |-> rubric.id,
     versionId |-> <<rubric.id, versionNumber, fingerprint>>,
     versionNumber |-> versionNumber,
     fingerprint |-> fingerprint,
     createdAt |-> createdAt,
     isBuiltIn |-> rubric.isBuiltIn]

-----------------------------------------------------------------------------
(* The rubrics the store is driven with *)

\* the number of store actions a behaviour takes; the clock stops there
MaxOps == 4

RubricIds == {<<"r", "1">>, <<"r", "2">>}

\* what the rubric editor saves: name, description and criteria
Contents ==
    { [name |-> <<" ", "Q", " ">>,
       description |-> <<>>,
       criteria |->
          << [id |-> <<"c", "1">>, name |-> <<"N">>, description |-> <<>>,
              weight |-> 100000, scoreRange |-> 5] >>],
      [name |-> <<"Q">>,
       description |-> <<"d">>,
       criteria |->
          << [id |-> <<"c", "1">>, name |-> <<"N", " ">>, description |-> <<>>,
              weight |-> 33333, scoreRange |-> 5],
             [id |-> <<"c", "2">>, name |-> <<"M">>, description |-> <<>>,
              weight |-> 66667, scoreRange |-> 10] >>] }

\* a custom rubric as the rubric editor creates it
CustomRubric(id, content, createdAt) ==
    [id |-> id,
     name |-> content.name,
     description |-> content.description,
     criteria |-> content.criteria,
     isBuiltIn |-> FALSE,
     createdAt |-> createdAt]

\* a custom rubric of two criteria with the weights 0.33333 and 0.66667
FpBase ==
    [id |-> <<"r", "1">>,
     name |-> <<"Q">>,
     description |-> <<"d">>,
     criteria |->
        << [id |-> <<"c", "1">>, name |-> <<"N">>, description |-> <<"x">>,
            weight |-> 33333, scoreRange |-> 5],
           [id |-> <<"c", "2">>, name |-> <<"M">>, description |-> <<>>,
            weight |-> 66667, scoreRange |-> 10] >>,
     isBuiltIn |-> FALSE,
     createdAt |-> 0]

\* FpBase and the rubrics that differ from it in one respect: whitespace
\* around a name or a description, isBuiltIn, createdAt, a weight (by
\* 0.00001 and by 0.00067), a scoreRange, an id, a text, the order or the
\* number of the criteria
FpRubrics ==
    { FpBase,
      [FpBase EXCEPT !.name = <<" ", "Q", " ">>],
      [FpBase EXCEPT !.description = <<"d", "\n">>],
      [FpBase EXCEPT !.criteria[1].name = <<" ", "N">>],
      [FpBase EXCEPT !.criteria[2].description = <<" ">>],
      [FpBase EXCEPT !.isBuiltIn = TRUE],
      [FpBase EXCEPT !.createdAt = 1],
      [FpBase EXCEPT !.criteria[1].weight = 33334],
      [FpBase EXCEPT !.criteria[1].weight = 33400],
      [FpBase EXCEPT !.criteria[2].scoreRange = 5],
      [FpBase EXCEPT !.criteria[1].id = <<"c", "3">>],
      [FpBase EXCEPT !.id = <<"r", "2">>],
      [FpBase EXCEPT !.name = <<"Q", "Q">>],
      [FpBase EXCEPT !.criteria[1].description = <<"y">>],
      [FpBase EXCEPT !.criteria = <<FpBase.criteria[2], FpBase.criteria[1]>>],
      [FpBase EXCEPT !.criteria = <<FpBase.criteria[1]>>] }

\* lib/rubric-templates: the built-in rubric "builtin-overall", its strings
\* as the sequences of their characters
BuiltInOverallText ==
    [id |-> <<"b", "u", "i", "l", "t", "i", "n", "-", "o", "v", "e", "r", "a",
            "l", "l">>,
     name |-> <<"O", "v", "e", "r", "a", "l", "l", " ", "Q", "u", "a", "l", "i",
              "t", "y">>,
     description |->
        <<"H", "o", "l", "i", "s", "t", "i", "c", " ", "e", "v", "a", "l",
          "u", "a", "t", "i", "o", "n", " ", "a", "c", "r", "o", "s", "s",
          " ", "h", "e", "l", "p", "f", "u", "l", "n", "e", "s", "s", ",",
          " ", "a", "c", "c", "u", "r", "a", "c", "y", ",", " ", "h", "a",
          "r", "m", "l", "e", "s", "s", "n", "e", "s", "s", ",", " ", "a",
          "n", "d", " ", "c", "o", "h", "e", "r", "e", "n", "c", "e", ".">>,
     criteria |->
        <<
          [id |-> <<"o", "-", "h", "e", "l", "p", "f", "u", "l", "n", "e", "s", "s">>,
           name |-> <<"H", "e", "l", "p", "f", "u", "l", "n", "e", "s", "s">>,
           description |->
              <<"H", "o", "w", " ", "w", "e", "l", "l", " ", "d", "o", "e", "s",
                " ", "t", "h", "e", " ", "r", "e", "s", "p", "o", "n", "s", "e",
                " ", "s", "e", "r", "v", "e", " ", "t", "h", "e", " ", "u", "s",
                "e", "r", "'", "s", " ", "a", "c", "t", "u", "a", "l", " ", "n",
                "e", "e", "d", "?">>,
           weight |-> 25000, scoreRange |-> 10],
          [id |-> <<"o", "-", "a", "c", "c", "u", "r", "a", "c", "y">>,
           name |-> <<"A", "c", "c", "u", "r", "a", "c", "y">>,
           description |->
              <<"H", "o", "w", " ", "f", "a", "c", "t", "u", "a", "l", "l", "y",
                " ", "c", "o", "r", "r", "e", "c", "t", " ", "a", "n", "d", " ",
                "p", "r", "e", "c", "i", "s", "e", " ", "i", "s", " ", "t", "h",
                "e", " ", "r", "e", "s", "p", "o", "n", "s", "e", "?">>,
           weight |-> 25000, scoreRange |-> 10],
          [id |-> <<"o", "-", "h", "a", "r", "m", "l", "e", "s", "s", "n", "e", "s",
                   "s">>,
           name |-> <<"H", "a", "r", "m", "l", "e", "s", "s", "n", "e", "s", "s">>,
           description |->
              <<"H", "o", "w", " ", "s", "a", "f", "e", " ", "a", "n", "d", " ",
                "e", "t", "h", "i", "c", "a", "l", "l", "y", " ", "s", "o", "u",
                "n", "d", " ", "i", "s", " ", "t", "h", "e", " ", "r", "e", "s",
                "p", "o", "n", "s", "e", "?">>,
           weight |-> 25000, scoreRange |-> 10],
          [id |-> <<"o", "-", "c", "o", "h", "e", "r", "e", "n", "c", "e">>,
           name |-> <<"C", "o", "h", "e", "r", "e", "n", "c", "e">>,
           description |->
              <<"H", "o", "w", " ", "w", "e", "l", "l", "-", "s", "t", "r", "u",
                "c", "t", "u", "r", "e", "d", ",", " ", "c", "l", "e", "a", "r",
                ",", " ", "a", "n", "d", " ", "i", "n", "t", "e", "r", "n", "a",
                "l", "l", "y", " ", "c", "o", "n", "s", "i", "s", "t", "e", "n",
                "t", " ", "i", "s", " ", "t", "h", "e", " ", "r", "e", "s", "p",
                "o", "n", "s", "e", "?">>,
           weight |-> 25000, scoreRange |-> 10]
        >>,
     isBuiltIn |-> TRUE,
     createdAt |-> 0]

BuiltInTexts == <<BuiltInOverallText>>

\* the ids the store's rubric actions are called with: custom ids and the id
\* of a built-in rubric
StoreIds == RubricIds \cup {BuiltInTexts[i].id : i \in 1..Len(BuiltInTexts)}

\* rubricFingerprint of every rubric the store can hold, computed once
FINGERPRINTS ==
    [n \in { NormalizedRubric(CustomRubric(id, c, 0)) :
               id \in StoreIds, c \in Contents }
            \cup { NormalizedRubric(BuiltInTexts[i]) : i \in 1..Len(BuiltInTexts) }
            \cup { NormalizedRubric(r) : r \in FpRubrics }
        |-> FingerprintOf(n)]

rubricFingerprint(rubric) ==
    IF NormalizedRubric(rubric) \in DOMAIN FINGERPRINTS
    THEN FINGERPRINTS[NormalizedRubric(rubric)]
    ELSE FingerprintOf(NormalizedRubric(rubric))

buildRubricVersionRef(rubric, versionNumber, createdAt) ==
    VersionRef(rubric, versionNumber, rubricFingerprint(rubric), createdAt)

\* Object.fromEntries(BUILT_IN_RUBRICS.map(...))
BUILT_IN_VERSION_MAP ==
    [id \in {BuiltInTexts[i].id : i \in 1..Len(BuiltInTexts)} |->
        LET rubric == BuiltInTexts[CHOOSE i \in 1..Len(BuiltInTexts) :
                                     BuiltInTexts[i].id = id]
        IN buildRubricVersionRef(rubric, 1, rubric.createdAt)]

\* BUILT_IN_VERSION_MAP[rubricId], None standing for undefined
getBuiltInRubricVersionRef(rubricId) ==
    IF rubricId \in DOMAIN BUILT_IN_VERSION_MAP
    THEN BUILT_IN_VERSION_MAP[rubricId] ELSE None

getLatestVersionRef(rubricId, versionMap) ==
    IF rubricId \in DOMAIN versionMap /\ Len(versionMap[rubricId]) > 0
    THEN versionMap[rubricId][Len(versionMap[rubricId])]
    ELSE getBuiltInRubricVersionRef(rubricId)

-----------------------------------------------------------------------------
(* lib/store: customRubrics and rubricVersions.  rubricVersions is a        *)
(* function from the rubric ids that have an entry to their version lists. *)

\* a variant of nextVersionNumber that numbers every version 1
AlwaysFirstVersion(existing) == 1

\* existing.length > 0 ? existing[existing.length - 1].versionNumber + 1 : 1
nextVersionNumber(existing) ==
    IF Len(existing) > 0 THEN existing[Len(existing)].versionNumber + 1 ELSE 1

\* versions[id] ?? []
VersionsOf(versions, id) ==
    IF id \in DOMAIN versions THEN versions[id] ELSE <<>>

\* a variant of WithVersions that keeps no other rubric's list
OnlyVersions(versions, id, list) == [k \in {id} |-> list]

\* { ...versions, [id]: list }
WithVersions(versions, id, list) ==
    [k \in DOMAIN versions \cup {id} |->
        IF k = id THEN list ELSE versions[k]]

\* ensureRubricVersionMap after the first n rubrics of the loop
RECURSIVE EnsureUpTo(_, _, _)
EnsureUpTo(rubrics, existing, n) ==
    IF n = 0 THEN existing
    ELSE IF VersionsOf(EnsureUpTo(rubrics, existing, n - 1), rubrics[n].id) = <<>>
    THEN WithVersions(EnsureUpTo(rubrics, existing, n - 1), rubrics[n].id,
                      <<buildRubricVersionRef(rubrics[n], 1,
                                              rubrics[n].createdAt)>>)
    ELSE EnsureUpTo(rubrics, existing, n - 1)

ensureRubricVersionMap(rubrics, existing) ==
    EnsureUpTo(rubrics, existing, Len(rubrics))

HasRubric(rubrics, id) == \E i \in 1..Len(rubrics) : rubrics[i].id = id

\* the version list after the append of addRubric and updateRubric
AppendVersion(existing, rubric, createdAt) ==
    Append(existing,
           buildRubricVersionRef(rubric, nextVersionNumber(existing), createdAt))

addRubric(rubric) ==
    /\ customRubrics' = Append(customRubrics, rubric)
    /\ rubricVersions' =
          WithVersions(rubricVersions, rubric.id,
                       AppendVersion(VersionsOf(rubricVersions, rubric.id),
                                     rubric, rubric.createdAt))
    /\ UNCHANGED experimentRuns
    /\ lastOp' = [op |-> "addRubric", id |-> rubric.id]
    /\ now' = now + 1
    /\ UNCHANGED <<evalVars, aggVars, otherVars>>

\* { ...rubric, ...patch }
Patched(rubric, patch) ==
    [rubric EXCEPT !.name = patch.name,
                   !.description = patch.description,
                   !.criteria = patch.criteria]

\* state.customRubrics.map(...)
UpdatedRubrics(rubrics, id, patch) ==
    [i \in 1..Len(rubrics) |->
        IF rubrics[i].id = id THEN Patched(rubrics[i], patch) ELSE rubrics[i]]

\* updatedRubrics.find((r) => r.id === id), when there is one
FindRubric(rubrics, id) ==
    rubrics[CHOOSE i \in 1..Len(rubrics) :
              /\ rubrics[i].id = id
              /\ \A j \in 1..(i - 1) : rubrics[j].id # id]

updateRubric(id, patch) ==
    /\ customRubrics' = UpdatedRubrics(customRubrics, id, patch)
    /\ IF ~HasRubric(customRubrics, id)
       THEN UNCHANGED rubricVersions
       ELSE rubricVersions' =
              WithVersions(rubricVersions, id,
                  AppendVersion(VersionsOf(rubricVersions, id),
                      FindRubric(UpdatedRubrics(customRubrics, id, patch), id),
                      now))
    /\ UNCHANGED experimentRuns
    /\ lastOp' = [op |-> "updateRubric", id |-> id]
    /\ now' = now + 1
    /\ UNCHANGED <<evalVars, aggVars, otherVars>>

deleteRubric(id) ==
    /\ customRubrics' = SelectSeq(customRubrics, LAMBDA r : r.id # id)
    /\ rubricVersions' =
          [k \in DOMAIN rubricVersions \ {id} |-> rubricVersions[k]]
    /\ UNCHANGED experimentRuns
    /\ lastOp' = [op |-> "deleteRubric", id |-> id]
    /\ now' = now + 1
    /\ UNCHANGED <<evalVars, aggVars, otherVars>>

\* store: getLatestRubricVersionRef
getLatestRubricVersionRef(rubricId) ==
    getLatestVersionRef(rubricId, rubricVersions)

\* a ?? b, None standing for undefined
OrRef(a, b) == IF a # None THEN a ELSE b

\* runFromEval, for the fields modelled
runFromEval(result, rubricVersionRef) ==
    [id |-> <<"run-", result.id>>,
     identityKey |-> <<"adhoc", result.mode, result.id, rubricVersionRef.versionId>>,
     createdAt |-> result.createdAt,
     runType |-> "adhoc",
     rubricId |-> result.rubric.id,
     rubricVersionRef |-> rubricVersionRef,
     sourceEvalResultIds |-> <<result.id>>,
     evalResults |-> <<result>>]

\* run.evalResults ?? [], a run without results having no such field
EvalResultsOf(run) ==
    IF "evalResults" \in DOMAIN run THEN run.evalResults ELSE <<>>

\* runs.flatMap((run) => run.evalResults ?? []), for the first n runs
RECURSIVE FlatResults(_, _)
FlatResults(runs, n) ==
    IF n = 0 THEN <<>>
    ELSE FlatResults(runs, n - 1) \o EvalResultsOf(runs[n])

\* one step of the stable sort by createdAt, descending: the result goes
\* behind the results that are as new or newer
RECURSIVE InsertDescending(_, _)
InsertDescending(sorted, result) ==
    IF sorted = <<>> THEN <<result>>
    ELSE IF Head(sorted).createdAt >= result.createdAt
    THEN <<Head(sorted)>> \o InsertDescending(Tail(sorted), result)
    ELSE <<result>> \o sorted

\* results.sort((a, b) => b.createdAt.localeCompare(a.createdAt)), for the
\* first n results
RECURSIVE SortedUpTo(_, _)
SortedUpTo(results, n) ==
    IF n = 0 THEN <<>>
    ELSE InsertDescending(SortedUpTo(results, n - 1), results[n])

\* a variant of historyFromRuns that does not sort
historyInRunOrder(runs) == FlatResults(runs, Len(runs))

historyFromRuns(runs) ==
    SortedUpTo(FlatResults(runs, Len(runs)), Len(FlatResults(runs, Len(runs))))

\* the version ref addResult records with the run
ResultVersionRef(result) ==
    OrRef(getLatestRubricVersionRef(result.rubric.id),
          OrRef(getBuiltInRubricVersionRef(result.rubric.id),
                buildRubricVersionRef(result.rubric, 1, result.rubric.createdAt)))

\* a variant of NextRuns that keeps every run
NextRunsKept(run) == <<run>> \o experimentRuns

\* [run, ...state.experimentRuns.filter((existing) => existing.id !== run.id)]
NextRuns(run) ==
    <<run>> \o SelectSeq(experimentRuns, LAMBDA existing : existing.id # run.id)

addResult(result) ==
    /\ experimentRuns' = NextRuns(runFromEval(result, ResultVersionRef(result)))
    /\ history' =
          historyFromRuns(NextRuns(runFromEval(result, ResultVersionRef(result))))
    /\ lastOp' = [op |-> "addResult", id |-> result.rubric.id]
    /\ now' = now + 1
    /\ UNCHANGED <<customRubrics, rubricVersions, evalVars, aggVars, fpVars,
                   runVars, cmpVars, pageVars, edVars, fnVars>>

\* the evaluation results the pages hand to addResult
EvalResults ==
    { [id |-> "e1", mode |-> "single", rubric |-> r, createdAt |-> 2] :
        r \in {BuiltInOverallText} \cup
              {CustomRubric(<<"r", "1">>, c, 0) : c \in Contents} }
    \cup { [id |-> "e2", mode |-> "pairwise", rubric |-> BuiltInOverallText,
            createdAt |-> 1] }

\* merge: the run made of a result of the legacy history
MigratedRun(result, versionMap) ==
    runFromEval(result,
        OrRef(getLatestVersionRef(result.rubric.id, versionMap),
              OrRef(getBuiltInRubricVersionRef(result.rubric.id),
                    buildRubricVersionRef(result.rubric, 1,
                                          result.rubric.createdAt))))

\* a variant of migratedRuns that makes no run of the legacy history
migratedRunsOnly(existingRuns, legacyHistory, versionMap) == existingRuns

\* merge: existingRuns.length > 0 ? existingRuns : legacyHistory.map(...)
migratedRuns(existingRuns, legacyHistory, versionMap) ==
    IF Len(existingRuns) > 0 THEN existingRuns
    ELSE [i \in 1..Len(legacyHistory) |->
            MigratedRun(legacyHistory[i], versionMap)]

\* persist's merge on a reload, the persisted state being the current one
merge ==
    /\ customRubrics' = customRubrics
    /\ rubricVersions' = ensureRubricVersionMap(customRubrics, rubricVersions)
    /\ experimentRuns' =
          migratedRuns(experimentRuns, history,
                       ensureRubricVersionMap(customRubrics, rubricVersions))
    /\ history' =
          historyFromRuns(
             migratedRuns(experimentRuns, history,
                          ensureRubricVersionMap(customRubrics, rubricVersions)))
    /\ lastOp' = [op |-> "merge", id |-> <<>>]
    /\ now' = now + 1
    /\ UNCHANGED <<evalVars, aggVars, fpVars, runVars, cmpVars, pageVars,
                   edVars, fnVars>>

\* the custom rubrics a state persisted before version lists existed holds
LegacyRubrics ==
    { <<>> } \cup { <<CustomRubric(<<"r", "1">>, c, 0)>> : c \in Contents }

\* the store after construction and the merge of the persisted state
InitStore ==
    /\ \E legacy \in LegacyRubrics :
        /\ customRubrics = legacy
        /\ rubricVersions = ensureRubricVersionMap(legacy, <<>>)
    /\ experimentRuns = <<>>
    /\ lastOp = [op |-> "merge", id |-> <<>>]
    /\ now = 1
    /\ InitEvalIdle
    /\ InitAggIdle
    /\ InitOthersIdle

NextStore ==
    \/ now <= MaxOps
       /\ \E id \in StoreIds, c \in Contents : addRubric(CustomRubric(id, c, now))
    \/ now <= MaxOps
       /\ \E id \in StoreIds, patch \in Contents : updateRubric(id, patch)
    \/ now <= MaxOps /\ \E id \in StoreIds : deleteRubric(id)
    \/ now <= MaxOps /\ \E result \in EvalResults : addResult(result)
    \/ now <= MaxOps /\ merge

SpecStore == InitStore /\ [][NextStore]_vars

\* C9: every rubric id's version list carries the versionNumbers 1, 2, ...,
\* n in list order, after any sequence of addRubric, updateRubric and
\* deleteRubric calls.
C9_VersionsNumberedFromOne ==
    \A id \in DOMAIN rubricVersions :
        \A i \in 1..Len(rubricVersions[id]) :
            rubricVersions[id][i].versionNumber = i

\* C9 witness: a rubric has three versions, numbered 1, 2, 3, right after
\* the other rubric was deleted.
C9_Witness ==
    /\ lastOp.op = "deleteRubric"
    /\ \E id \in DOMAIN rubricVersions :
        /\ id # lastOp.id
        /\ Len(rubricVersions[id]) = 3
        /\ rubricVersions[id][3].versionNumber = 3

\* the built-in rubric of the given id
BuiltInText(id) ==
    BuiltInTexts[CHOOSE i \in 1..Len(BuiltInTexts) : BuiltInTexts[i].id = id]

StepIs(op, id) == lastOp'.op = op /\ lastOp'.id = id /\ now' # now

\* C10: version lists are append-only.  addRubric and updateRubric leave
\* every entry already in any list at its index with its fields; a create,
\* or an update of an existing custom rubric, appends exactly one entry to
\* that rubric's list; and a list loses entries only through deleteRubric
\* of its id, which removes the whole list.
C10_AppendOnly ==
    [][ /\ \A id \in DOMAIN rubricVersions :
            IF StepIs("deleteRubric", id)
            THEN id \notin DOMAIN rubricVersions'
            ELSE /\ id \in DOMAIN rubricVersions'
                 /\ Len(rubricVersions'[id]) >= Len(rubricVersions[id])
                 /\ \A i \in 1..Len(rubricVersions[id]) :
                        rubricVersions'[id][i] = rubricVersions[id][i]
        /\ \A id \in RubricIds :
            Len(VersionsOf(rubricVersions', id)) =
                IF StepIs("deleteRubric", id) THEN 0
                ELSE IF \/ StepIs("addRubric", id)
                        \/ StepIs("updateRubric", id) /\ HasRubric(customRubrics, id)
                THEN Len(VersionsOf(rubricVersions, id)) + 1
                ELSE Len(VersionsOf(rubricVersions, id))
      ]_vars

\* C10 witness: an update of a rubric that exists has appended a third
\* entry to its list while another rubric holds a list of its own.
C10_Witness ==
    /\ lastOp.op = "updateRubric"
    /\ Len(VersionsOf(rubricVersions, lastOp.id)) = 3
    /\ \E other \in DOMAIN rubricVersions :
        other # lastOp.id /\ Len(rubricVersions[other]) >= 1

-----------------------------------------------------------------------------
(* The judge calls of a pairwise request *)

\* the request in flight is a pairwise one that passed the checks made
\* before the first judge call
PairwiseAccepted ==
    /\ req # None
    /\ req.route = "pairwise"
    /\ (IF req.gen = 2 THEN PairwiseChecks(req) ELSE ChecksV1(req)) = None

\* C17: a pairwise evaluation request issues exactly one judge call when
\* detectPositionBias is false and at most two when it is true, no call is
\* issued after a failed one and none twice; when detectPositionBias is
\* false the result carries no reversedVerdict, reversedChainOfThought or
\* positionBiasDetected.
C17_JudgeCallsOfPairwise ==
    PairwiseAccepted =>
        /\ Len(calls) <= (IF req.detectPositionBias THEN 2 ELSE 1)
        /\ \A i, j \in 1..Len(calls) : calls[i].order = calls[j].order => i = j
        /\ \A i \in 1..(Len(calls) - 1) :
            calls[i].outcome # None /\ ~calls[i].outcome.failed
        /\ (pc = "done" /\ ~req.detectPositionBias) =>
            /\ Len(calls) = 1
            /\ resp.status = 200 =>
                /\ resp.result.reversedVerdict = Undefined
                /\ resp.result.reversedChainOfThought = Undefined
                /\ resp.result.positionBiasDetected = Undefined

\* C17 witness: a request without position-bias detection has ended with a
\* result after one judge call, and the result carries no reversed field.
C17_Witness ==
    /\ PairwiseAccepted
    /\ pc = "done"
    /\ ~req.detectPositionBias
    /\ Len(calls) = 1
    /\ resp.status = 200
    /\ resp.result.reversedVerdict = Undefined

\* the judge text is not a JSON object once its code fences are stripped
NotJsonObject(text) ==
    \/ JsonParse(StripFences(text)).thrown # "none"
    \/ JsonParse(StripFences(text)).val.t # "object"

\* the AB call of the request in flight has returned, with a provider
\* failure or with a text that is not a JSON object
PrimaryFailed ==
    /\ calls # <<>>
    /\ calls[1].outcome # None
    /\ (calls[1].outcome.failed \/ NotJsonObject(calls[1].outcome.text))

-----------------------------------------------------------------------------
(* rubricFingerprint on its own: two rubrics are fingerprinted *)

InitFp ==
    /\ fpIn \in [a : FpRubrics, b : FpRubrics]
    /\ fpOut = None
    /\ InitEvalIdle
    /\ InitAggIdle
    /\ InitStoreEmpty
    /\ InitRunsIdle
    /\ InitCmpIdle
    /\ InitPageIdle
    /\ InitExtIdle

Fingerprint ==
    /\ fpOut = None
    /\ fpOut' = [a |-> rubricFingerprint(fpIn.a), b |-> rubricFingerprint(fpIn.b)]
    /\ UNCHANGED <<fpIn, evalVars, aggVars, storeVars, runVars, cmpVars, pageVars, extVars>>

NextFp == Fingerprint

SpecFp == InitFp /\ [][NextFp]_vars

\* the two weights are the same: as they are, or after the rounding to four
\* decimals when rounded
SameWeight(v, w, rounded) ==
    IF rounded THEN (v + 5) \div 10 = (w + 5) \div 10 ELSE v = w

\* rubrics a and b have the same id, trimmed name and trimmed description,
\* and the same criteria in the same order, each with the same id, trimmed
\* name, trimmed description, scoreRange and weight
SameContent(a, b, rounded) ==
    /\ a.id = b.id
    /\ Trim(a.name) = Trim(b.name)
    /\ Trim(a.description) = Trim(b.description)
    /\ Len(a.criteria) = Len(b.criteria)
    /\ \A i \in 1..Len(a.criteria) :
        i \in 1..Len(b.criteria) =>
            /\ a.criteria[i].id = b.criteria[i].id
            /\ Trim(a.criteria[i].name) = Trim(b.criteria[i].name)
            /\ Trim(a.criteria[i].description) = Trim(b.criteria[i].description)
            /\ a.criteria[i].scoreRange = b.criteria[i].scoreRange
            /\ SameWeight(a.criteria[i].weight, b.criteria[i].weight, rounded)

\* C12, as stated: rubricFingerprint gives the same value for two rubrics
\* that differ only in whitespace around a name or a description, in
\* isBuiltIn or in createdAt, and a different value when a weight, a
\* scoreRange, an id, a trimmed name, a trimmed description or the order of
\* the criteria differs.
C12_FingerprintStability ==
    fpOut # None =>
        (fpOut.a = fpOut.b) = SameContent(fpIn.a, fpIn.b, FALSE)

\* C12, amended: the fingerprints are the same when the two rubrics differ
\* only in whitespace around a name or a description, in isBuiltIn, in
\* createdAt or in weights that are equal once rounded to four decimals, and
\* different when a rounded weight, a scoreRange, an id, a trimmed name, a
\* trimmed description or the order of the criteria differs.
C12_FingerprintOfRoundedContent ==
    fpOut # None =>
        (fpOut.a = fpOut.b) = SameContent(fpIn.a, fpIn.b, TRUE)

\* C12 witness: two rubrics whose names differ only in surrounding
\* whitespace have been given the same fingerprint.
C12_Witness ==
    /\ fpOut # None
    /\ fpIn.a.name # fpIn.b.name
    /\ Trim(fpIn.a.name) = Trim(fpIn.b.name)
    /\ fpOut.a = fpOut.b

-----------------------------------------------------------------------------
(* api/experiments/run and lib/server-memory.  The server keeps datasets,  *)
(* their versions and the experiment runs in memory.  A mean score and a   *)
(* mean gate are held in hundredths, a pass rate and a pass-rate gate in   *)
(* ten-thousandths, an ensemble weight in ten-thousandths, a win or tie    *)
(* rate in ten-thousandths, the estimated cost in millionths of a dollar.  *)

MaxRuns == 2


\* the text of an evalMode and of the model ids the requests name
EvalModeText(mode) ==
    IF mode = "single" THEN <<"s", "i", "n", "g", "l", "e">> ELSE <<"p", "a", "i", "r", "w", "i", "s", "e">>

ModelIdText(id) ==
    CASE id = <<"gpt-", "4o">> -> <<"g", "p", "t", "-", "4", "o">>
      [] id = <<"gpt-", "4o-mini">> -> <<"g", "p", "t", "-", "4", "o", "-", "m", "i", "n", "i">>
      [] id = <<"claude-", "3-5-sonnet-20241022">> -> <<"c", "l", "a", "u", "d", "e", "-", "3", "-", "5", "-", "s", "o", "n", "n", "e", "t", "-", "2", "0", "2", "4", "1", "0", "2", "2">>
      [] OTHER -> <<"?">>

\* RequestSchema.safeParse(body).success, for the bodies of the model: the
\* strings that must be non-empty, repeats an integer of 1..10 when present,
\* a non-empty ensemble of positive weights when present, gates in range
RequestSchema(r) ==
    /\ r.datasetId # <<>>
    /\ r.rubricId # <<>>
    /\ r.repeats # Absent => ValueOf(r.repeats) \in 1..10
    /\ r.ensemble # Absent =>
        /\ Len(ValueOf(r.ensemble)) >= 1
        /\ \A i \in 1..Len(ValueOf(r.ensemble)) : ValueOf(r.ensemble)[i].weight > 0
    /\ r.rubricVersionRef # Absent =>
        ValueOf(r.rubricVersionRef).versionId # <<>>
    /\ r.judgePromptVersionRef # Absent =>
        /\ ValueOf(r.judgePromptVersionRef).id # <<>>
        /\ ValueOf(r.judgePromptVersionRef).versionNumber >= 1
    /\ r.gates # Absent =>
        /\ ValueOf(r.gates).minMeanAggregateScore # Absent =>
            ValueOf(ValueOf(r.gates).minMeanAggregateScore) \in 0..10000
        /\ ValueOf(r.gates).minPassRate # Absent =>
            ValueOf(ValueOf(r.gates).minPassRate) \in 0..10000

\* repeats after z.number().default(1)
ParsedRepeats(r) == IF r.repeats = Absent THEN 1 ELSE ValueOf(r.repeats)

pickDatasetVersion(versions, datasetVersionId) ==
    IF datasetVersionId = Absent \/ ValueOf(datasetVersionId) = <<>>
    THEN versions[Len(versions)]
    ELSE IF \E i \in 1..Len(versions) : versions[i].id = ValueOf(datasetVersionId)
         THEN versions[CHOOSE i \in 1..Len(versions) :
                           /\ versions[i].id = ValueOf(datasetVersionId)
                           /\ \A j \in 1..(i - 1) :
                               versions[j].id # ValueOf(datasetVersionId)]
         ELSE None

\* the value of a hexadecimal digit, and Number.parseInt(text, 16) of the
\* eight digits of a hash as the two 16-bit halves of the number
HexValue(c) == (CHOOSE i \in 1..16 : HexDigits[i] = c) - 1

Hex4Value(s) ==
    HexValue(s[1]) * 4096 + HexValue(s[2]) * 256 + HexValue(s[3]) * 16
    + HexValue(s[4])

ParseHex(text) ==
    [hi |-> Hex4Value(SubSeq(text, 1, 4)), lo |-> Hex4Value(SubSeq(text, 5, 8))]

\* h % span for h = hi * 65536 + lo and a span below 256
ModSpan(h, span) == ((h.hi % span) * (65536 % span) + (h.lo % span)) % span

serverHashString(input) == HashHex(HashAfter(input))

seededRange(seed, min, max) ==
    min + ModSpan(ParseHex(serverHashString(seed)), max - min + 1)

\* JSON.stringify of the ensemble entries 1..n, each
\* {"modelId":...,"weight":...}
RECURSIVE JsonEnsembleUpTo(_, _)
JsonEnsembleUpTo(ensemble, n) ==
    IF n = 0 THEN <<>>
    ELSE JsonEnsembleUpTo(ensemble, n - 1)
         \o (IF n > 1 THEN <<",">> ELSE <<>>)
         \o <<"{", "\"", "m", "o", "d", "e", "l", "I", "d", "\"", ":">> \o JsonString(ModelIdText(ensemble[n].modelId))
         \o <<",", "\"", "w", "e", "i", "g", "h", "t", "\"", ":">> \o JsonNumber(ensemble[n].weight) \o <<"}">>

\* const ensemble = input.ensemble && input.ensemble.length > 0 ? ... : ...
EnsembleOf(r) ==
    IF r.ensemble # Absent /\ Len(ValueOf(r.ensemble)) > 0 THEN ValueOf(r.ensemble)
    ELSE << [modelId |-> r.judgeModelId, weight |-> 10000] >>

\* const config: RunConfig = {...}
RunConfigOf(r, dataset, version) ==
    [name |-> IF r.name # Absent /\ Trim(ValueOf(r.name)) # <<>>
              THEN Trim(ValueOf(r.name))
              ELSE dataset.name \o <<" ", "/", " ">> \o EvalModeText(r.evalMode),
     datasetId |-> dataset.id,
     datasetVersionId |-> version.id,
     evalMode |-> r.evalMode,
     judgeModelId |-> r.judgeModelId,
     rubricId |-> r.rubricId,
     repeats |-> ParsedRepeats(r),
     ensemble |-> EnsembleOf(r),
     rubricVersionRef |-> r.rubricVersionRef,
     judgePromptVersionRef |-> r.judgePromptVersionRef,
     gates |-> r.gates]

\* config.rubricVersionRef?.versionId ?? "unknown", and the like
RubricVersionIdOf(config) ==
    IF config.rubricVersionRef = Absent THEN <<"u", "n", "k", "n", "o", "w", "n">>
    ELSE ValueOf(config.rubricVersionRef).versionId

PromptVersionIdOf(config) ==
    IF config.judgePromptVersionRef = Absent THEN <<"u", "n", "k", "n", "o", "w", "n">>
    ELSE ValueOf(config.judgePromptVersionRef).id

PromptVersionNumberOf(config) ==
    IF config.judgePromptVersionRef = Absent THEN 1
    ELSE ValueOf(config.judgePromptVersionRef).versionNumber

\* a variant of identityRaw that lets the run name into the key
identityRawWithName(config, version) ==
    <<"{", "\"", "n", "\"", ":">> \o JsonString(config.name) \o <<"}">>
    \o JsonString(config.datasetId) \o JsonString(config.datasetVersionId)
    \o JsonString(EvalModeText(config.evalMode))
    \o JsonString(ModelIdText(config.judgeModelId))
    \o JsonString(config.rubricId) \o JsonString(RubricVersionIdOf(config))
    \o JsonString(PromptVersionIdOf(config))
    \o NatToDigits(PromptVersionNumberOf(config)) \o <<",">>
    \o NatToDigits(config.repeats) \o JsonString(version.hash)
    \o JsonEnsembleUpTo(config.ensemble, Len(config.ensemble))

\* const identityRaw = JSON.stringify({...})
identityRaw(config, version) ==
    <<"{", "\"", "d", "a", "t", "a", "s", "e", "t", "I", "d", "\"", ":">> \o JsonString(config.datasetId)
    \o <<",", "\"", "d", "a", "t", "a", "s", "e", "t", "V", "e", "r", "s", "i", "o", "n", "I", "d", "\"", ":">> \o JsonString(config.datasetVersionId)
    \o <<",", "\"", "e", "v", "a", "l", "M", "o", "d", "e", "\"", ":">> \o JsonString(EvalModeText(config.evalMode))
    \o <<",", "\"", "j", "u", "d", "g", "e", "M", "o", "d", "e", "l", "I", "d", "\"", ":">> \o JsonString(ModelIdText(config.judgeModelId))
    \o <<",", "\"", "r", "u", "b", "r", "i", "c", "I", "d", "\"", ":">> \o JsonString(config.rubricId)
    \o <<",", "\"", "r", "u", "b", "r", "i", "c", "V", "e", "r", "s", "i", "o", "n", "I", "d", "\"", ":">> \o JsonString(RubricVersionIdOf(config))
    \o <<",", "\"", "p", "r", "o", "m", "p", "t", "V", "e", "r", "s", "i", "o", "n", "I", "d", "\"", ":">> \o JsonString(PromptVersionIdOf(config))
    \o <<",", "\"", "p", "r", "o", "m", "p", "t", "V", "e", "r", "s", "i", "o", "n", "N", "u", "m", "b", "e", "r", "\"", ":">>
    \o NatToDigits(PromptVersionNumberOf(config))
    \o <<",", "\"", "r", "e", "p", "e", "a", "t", "s", "\"", ":">> \o NatToDigits(config.repeats)
    \o <<",", "\"", "i", "t", "e", "m", "H", "a", "s", "h", "\"", ":">> \o JsonString(version.hash)
    \o <<",", "\"", "e", "n", "s", "e", "m", "b", "l", "e", "\"", ":", "[">>
    \o JsonEnsembleUpTo(config.ensemble, Len(config.ensemble)) \o <<"]", "}">>

\* the aggregateScore of the case (repeat, item):
\* seededRange(`${identityKey}:${repeat}:${item.id}`, 45, 100)
CaseScore(identityKey, repeat, itemId) ==
    seededRange(identityKey \o <<":">> \o NatToDigits(repeat) \o <<":">> \o itemId,
                45, 100)

\* the cases of the two loops, repeat by repeat and item by item
CaseScores(identityKey, repeats, items) ==
    [k \in 1..(repeats * Len(items)) |->
        CaseScore(identityKey, (k - 1) \div Len(items),
                  items[((k - 1) % Len(items)) + 1])]

seededVerdict(seed) ==
    IF ModSpan(ParseHex(serverHashString(seed)), 3) = 0 THEN "A"
    ELSE IF ModSpan(ParseHex(serverHashString(seed)), 3) = 1 THEN "B"
    ELSE "tie"

\* a variant of CaseVerdicts that draws the verdicts of the first repeat
\* alone
CaseVerdictsOfOneRepeat(evalMode, identityKey, repeats, items) ==
    IF evalMode # "pairwise" THEN <<>>
    ELSE [k \in 1..Len(items) |->
            seededVerdict(identityKey \o <<":">> \o NatToDigits(0) \o <<":">>
                          \o items[k])]

\* the verdicts of the cases of a pairwise run, in the order of the loops;
\* a single run draws none
CaseVerdicts(evalMode, identityKey, repeats, items) ==
    IF evalMode # "pairwise" THEN <<>>
    ELSE [k \in 1..(repeats * Len(items)) |->
            seededVerdict(identityKey \o <<":">>
                          \o NatToDigits((k - 1) \div Len(items)) \o <<":">>
                          \o items[((k - 1) % Len(items)) + 1])]

\* winA, winB and ties after the loops
CountOf(verdicts, v) ==
    Cardinality({k \in 1..Len(verdicts) : verdicts[k] = v})

\* Math.round(length / 4)
QuarterRounded(length) == (length + 2) \div 4

promptTokens(item) == Max(20, QuarterRounded(item.prompt))

responseTokens(evalMode, item) ==
    IF evalMode = "single" THEN Max(20, QuarterRounded(item.response))
    ELSE Max(40, QuarterRounded(item.responseA + item.responseB))

\* promptTokens + Math.round(responseTokens * 0.6)
inputTokens(evalMode, item) ==
    promptTokens(item) + (responseTokens(evalMode, item) * 6 + 5) \div 10

\* Math.max(32, Math.round(responseTokens * 0.25))
outputTokens(evalMode, item) ==
    Max(32, QuarterRounded(responseTokens(evalMode, item)))

\* totalInputTokens and totalOutputTokens after the loops: every repeat
\* adds the tokens of every item
RECURSIVE TokensUpTo(_, _, _, _)
TokensUpTo(evalMode, items, n, output) ==
    IF n = 0 THEN 0
    ELSE TokensUpTo(evalMode, items, n - 1, output)
         + (IF output THEN outputTokens(evalMode, SeedItem(items[n]))
            ELSE inputTokens(evalMode, SeedItem(items[n])))

RECURSIVE GCD(_, _)
GCD(a, b) == IF b = 0 THEN a ELSE GCD(b, a % b)

\* the greatest common divisor of the weights of the entries 1..n
RECURSIVE WeightUnit(_, _)
WeightUnit(ensemble, n) ==
    IF n = 0 THEN 0 ELSE GCD(ensemble[n].weight, WeightUnit(ensemble, n - 1))

\* totalWeight, in the unit of the weights
RECURSIVE totalWeightUpTo(_, _)
totalWeightUpTo(ensemble, n) ==
    IF n = 0 THEN 0
    ELSE totalWeightUpTo(ensemble, n - 1)
         + ensemble[n].weight \div WeightUnit(ensemble, Len(ensemble))

\* what the models 1..n add to totalCostUsd for a case of the given
\* tokens, times totalWeight: thousand-millionths of a dollar
RECURSIVE CaseCostUpTo(_, _, _, _)
CaseCostUpTo(ensemble, n, tokensIn, tokensOut) ==
    IF n = 0 THEN 0
    ELSE CaseCostUpTo(ensemble, n - 1, tokensIn, tokensOut)
         + (tokensIn * getModelById(ensemble[n].modelId).inputCostPer1M
            + tokensOut * getModelById(ensemble[n].modelId).outputCostPer1M)
           * (ensemble[n].weight \div WeightUnit(ensemble, Len(ensemble)))

\* totalCostUsd times totalWeight after one repeat of the items 1..n
RECURSIVE CostUpTo(_, _, _)
CostUpTo(config, items, n) ==
    IF n = 0 THEN 0
    ELSE CostUpTo(config, items, n - 1)
         + CaseCostUpTo(config.ensemble, Len(config.ensemble),
                        inputTokens(config.evalMode, SeedItem(items[n])),
                        outputTokens(config.evalMode, SeedItem(items[n])))

\* round(estimatedCostUsd, 6) in millionths of a dollar, of the exact sum;
\* the handler adds the same terms as floating-point numbers
RoundedCost(costTimesWeight, totalWeight) ==
    (2 * costTimesWeight + 1000 * totalWeight) \div (2000 * totalWeight)

\* round(count / caseCount, 4) in ten-thousandths; 0 / 0 is NaN
RoundedRate(count, caseCount) ==
    IF caseCount = 0 THEN NaN
    ELSE (count * 20000 + caseCount) \div (2 * caseCount)

\* the locals of the handler after the loops, apart from scoreSum and
\* passCount
TalliesOf(config, version, verdicts) ==
    [winA |-> CountOf(verdicts, "A"),
     winB |-> CountOf(verdicts, "B"),
     ties |-> Len(verdicts) - CountOf(verdicts, "A") - CountOf(verdicts, "B"),
     totalInputTokens |->
        config.repeats
          * TokensUpTo(config.evalMode, version.items, Len(version.items), FALSE),
     totalOutputTokens |->
        config.repeats
          * TokensUpTo(config.evalMode, version.items, Len(version.items), TRUE),
     costTimesWeight |->
        config.repeats * CostUpTo(config, version.items, Len(version.items)),
     totalWeight |-> totalWeightUpTo(config.ensemble, Len(config.ensemble))]

\* scoreSum and passCount after the loops
ScoreSumOf(scores) == SeqSum(scores)
PassCountOf(scores) == Cardinality({k \in 1..Len(scores) : scores[k] >= 70})

\* round(scoreSum / caseCount, 1) in hundredths, Math.round rounding half up
RoundedMeanScore(scoreSum, caseCount) ==
    IF caseCount = 0 THEN 0
    ELSE ((scoreSum * 20 + caseCount) \div (2 * caseCount)) * 10

\* round(passCount / caseCount, 4) in ten-thousandths
RoundedPassRate(passCount, caseCount) ==
    IF caseCount = 0 THEN 0
    ELSE (passCount * 20000 + caseCount) \div (2 * caseCount)

\* meanAggregateScore < gate, the mean being scoreSum / caseCount (0 without
\* cases) and the gate in hundredths
MeanBelow(scoreSum, caseCount, gate) ==
    IF caseCount = 0 THEN 0 < gate ELSE scoreSum * 100 < gate * caseCount

\* passRate < gate, the gate in ten-thousandths
RateBelow(passCount, caseCount, gate) ==
    IF caseCount = 0 THEN 0 < gate ELSE passCount * 10000 < gate * caseCount

\* a variant of ReasonsOf that compares the metrics as the run reports
\* them, rounded
ReasonsOfReported(gates, scoreSum, passCount, caseCount) ==
    (IF gates # Absent /\ ValueOf(gates).minMeanAggregateScore # Absent
        /\ RoundedMeanScore(scoreSum, caseCount)
            < ValueOf(ValueOf(gates).minMeanAggregateScore)
     THEN <<"minMeanAggregateScore">> ELSE <<>>)
    \o (IF gates # Absent /\ ValueOf(gates).minPassRate # Absent
           /\ RoundedPassRate(passCount, caseCount)
               < ValueOf(ValueOf(gates).minPassRate)
        THEN <<"minPassRate">> ELSE <<>>)

\* const reasons: string[] = [] and the two pushes; a reason is held as the
\* gate it names
ReasonsOf(gates, scoreSum, passCount, caseCount) ==
    (IF gates # Absent /\ ValueOf(gates).minMeanAggregateScore # Absent
        /\ MeanBelow(scoreSum, caseCount,
                     ValueOf(ValueOf(gates).minMeanAggregateScore))
     THEN <<"minMeanAggregateScore">> ELSE <<>>)
    \o (IF gates # Absent /\ ValueOf(gates).minPassRate # Absent
           /\ RateBelow(passCount, caseCount, ValueOf(ValueOf(gates).minPassRate))
        THEN <<"minPassRate">> ELSE <<>>)

\* const run: ExperimentRun = {...} apart from its id and createdAt
RunDraft(config, version, identityKey, scoreSum, passCount, caseCount, tallies) ==
    [identityKey |-> identityKey,
     runType |-> "dataset",
     status |-> "completed",
     config |-> config,
     datasetVersionId |-> version.id,
     rubricVersionRef |-> config.rubricVersionRef,
     judgePromptVersionRef |-> config.judgePromptVersionRef,
     metrics |->
        [caseCount |-> caseCount,
         meanAggregateScore |-> RoundedMeanScore(scoreSum, caseCount),
         passRate |-> RoundedPassRate(passCount, caseCount),
         winRateA |-> IF config.evalMode = "pairwise"
                      THEN Some(RoundedRate(tallies.winA, caseCount))
                      ELSE Absent,
         winRateB |-> IF config.evalMode = "pairwise"
                      THEN Some(RoundedRate(tallies.winB, caseCount))
                      ELSE Absent,
         tieRate |-> IF config.evalMode = "pairwise"
                     THEN Some(RoundedRate(tallies.ties, caseCount))
                     ELSE Absent,
         inputTokens |-> tallies.totalInputTokens,
         outputTokens |-> tallies.totalOutputTokens,
         estimatedCostUsd |->
            RoundedCost(tallies.costTimesWeight, tallies.totalWeight)],
     regression |->
        [passed |-> ReasonsOf(config.gates, scoreSum, passCount, caseCount)
                        = <<>>,
         reasons |-> ReasonsOf(config.gates, scoreSum, passCount, caseCount)]]

RunError(status, error) == [status |-> status, error |-> error]

FindDataset(datasets, datasetId) ==
    IF \E i \in 1..Len(datasets) : datasets[i].id = datasetId
    THEN datasets[CHOOSE i \in 1..Len(datasets) : datasets[i].id = datasetId]
    ELSE None

\* the response with the run draft, and the locals of the handler the
\* draft was computed from
DraftOfScores(config, version, identityKey, scores, tallies) ==
    [status |-> 200,
     run |-> RunDraft(config, version, identityKey, ScoreSumOf(scores),
                      PassCountOf(scores), Len(version.items) * config.repeats,
                      tallies),
     locals |-> [scoreSum |-> ScoreSumOf(scores),
                 passCount |-> PassCountOf(scores),
                 caseCount |-> Len(version.items) * config.repeats,
                 winA |-> tallies.winA,
                 winB |-> tallies.winB,
                 ties |-> tallies.ties]]

DraftWithKey(config, version, identityKey) ==
    DraftOfScores(config, version, identityKey,
                  CaseScores(identityKey, config.repeats, version.items),
                  TalliesOf(config, version,
                            CaseVerdicts(config.evalMode, identityKey,
                                         config.repeats, version.items)))

DraftOfVersion(r, dataset, version) ==
    IF version = None THEN RunError(404, "Dataset version not found")
    ELSE IF getModelById(r.judgeModelId) = None
    THEN RunError(400, "Unknown judge model")
    ELSE IF \E i \in 1..Len(EnsembleOf(r)) :
                getModelById(EnsembleOf(r)[i].modelId) = None
    THEN RunError(400, "One or more ensemble models are unknown")
    ELSE DraftWithKey(RunConfigOf(r, dataset, version), version,
                      serverHashString(
                          identityRaw(RunConfigOf(r, dataset, version),
                                      version)))

\* POST up to "const run", for the datasets and versions of the memory
DraftOf(r) ==
    IF ~RequestSchema(r) THEN RunError(400, "Invalid experiment run request")
    ELSE IF FindDataset(SeedDatasets, r.datasetId) = None
    THEN RunError(404, "Dataset not found")
    ELSE IF Len(SeedVersions(r.datasetId)) = 0
    THEN RunError(400, "Dataset has no imported versions")
    ELSE DraftOfVersion(r, FindDataset(SeedDatasets, r.datasetId),
                        pickDatasetVersion(SeedVersions(r.datasetId),
                                           r.datasetVersionId))

\* the request bodies of the model: a single and a pairwise request under
\* every name and every gates object, and the requests that differ from the
\* single one in one field
RunNames == {Absent, Some(<<"x">>), Some(<<" ", "y", " ">>)}

Gates(mean, rate) == Some([minMeanAggregateScore |-> mean, minPassRate |-> rate])

RunGates ==
    {Absent, Gates(Some(7000), Absent), Gates(Some(8770), Absent),
     Gates(Absent, Some(6667)), Gates(Some(8770), Some(6667)),
     Gates(Some(8770), Some(10000))}

RunBase ==
    [name |-> Absent, datasetId |-> <<"d", "1">>, datasetVersionId |-> Absent,
     evalMode |-> "single", judgeModelId |-> <<"gpt-", "4o">>,
     rubricId |-> <<"r", "1">>, repeats |-> Absent, ensemble |-> Absent,
     rubricVersionRef |-> Absent, judgePromptVersionRef |-> Absent,
     gates |-> Absent]

RubricRef(versionId) ==
    Some([rubricId |-> <<"r", "1">>, versionId |-> versionId, versionNumber |-> 1,
          fingerprint |-> <<"a", "b">>, createdAt |-> 0, isBuiltIn |-> FALSE])

PromptRef(id, versionNumber) ==
    Some([id |-> id, versionNumber |-> versionNumber, createdAt |-> 0])

Member(modelId, weight) == [modelId |-> modelId, weight |-> weight]

RunRequests ==
    {[RunBase EXCEPT !.name = n, !.gates = g, !.evalMode = m] :
        n \in RunNames, g \in RunGates, m \in {"single", "pairwise"}}
    \cup {[RunBase EXCEPT !.datasetId = d] : d \in {<<"d", "2">>, <<"d", "9">>}}
    \cup {[RunBase EXCEPT !.datasetVersionId = Some(v)] :
            v \in {<<"v", "1">>, <<"v", "2">>, <<"v", "9">>}}
    \cup {[RunBase EXCEPT !.judgeModelId = j] :
            j \in {<<"gpt-", "4o-mini">>, <<"claude-", "3-5-sonnet-20241022">>,
                   <<"gpt-", "5">>}}
    \cup {[RunBase EXCEPT !.rubricId = <<"r", "2">>]}
    \cup {[RunBase EXCEPT !.rubricVersionRef = RubricRef(v)] :
            v \in {<<"r", "1", ":", "v", "1", ":", "a", "b">>, <<"u", "n", "k", "n", "o", "w", "n">>}}
    \cup {[RunBase EXCEPT !.judgePromptVersionRef = PromptRef(p[1], p[2])] :
            p \in {<<<<"p", "1">>, 1>>, <<<<"p", "1">>, 2>>, <<<<"u", "n", "k", "n", "o", "w", "n">>, 1>>}}
    \cup {[RunBase EXCEPT !.repeats = Some(n)] : n \in {1, 2, 11}}
    \cup {[RunBase EXCEPT !.evalMode = "pairwise", !.repeats = Some(2),
                          !.name = n, !.datasetVersionId = v] :
            n \in RunNames, v \in {Absent, Some(<<"v", "1">>)}}
    \cup {[RunBase EXCEPT !.ensemble = Some(e)] :
            e \in {<<Member(<<"gpt-", "4o">>, 10000)>>,
                   <<Member(<<"gpt-", "4o">>, 20000)>>,
                   <<Member(<<"gpt-", "4o">>, 10000),
                     Member(<<"gpt-", "4o-mini">>, 10000)>>,
                   <<Member(<<"gpt-", "5">>, 10000)>>}}

\* DraftOf of every request of the model, computed once
RUN_DRAFTS == [r \in RunRequests |-> DraftOf(r)]

\* the rest of POST for a request whose draft is a run: the run gets a fresh
\* id and the time, and is put in front of the runs with another id
RecordRun(draft, id, createdAt) ==
    /\ memory' = [memory EXCEPT !.experimentRuns =
            <<[id |-> id, createdAt |-> createdAt] @@ draft.run>>
            \o SelectSeq(@, LAMBDA existing : existing.id # id)]
    /\ runResp' = [status |-> 200,
                   run |-> [id |-> id, createdAt |-> createdAt] @@ draft.run]
    /\ runLocals' = draft.locals
    /\ nanoids' = nanoids + 1

\* POST /api/experiments/run with body r; nanoid() gives an id no run has
RunExperiment(r) ==
    /\ runReq' = r
    /\ runClock' = runClock + 1
    /\ IF RUN_DRAFTS[r].status = 200
       THEN RecordRun(RUN_DRAFTS[r], <<"exp-", nanoids + 1>>, runClock)
       ELSE /\ runResp' = RUN_DRAFTS[r]
            /\ runLocals' = None
            /\ UNCHANGED <<memory, nanoids>>
    /\ UNCHANGED <<evalVars, aggVars, storeVars, fpVars, cmpVars, pageVars, extVars>>

InitRuns ==
    /\ InitRunsIdle
    /\ InitEvalIdle
    /\ InitAggIdle
    /\ InitStoreEmpty
    /\ InitFpIdle
    /\ InitCmpIdle
    /\ InitPageIdle
    /\ InitExtIdle

NextRunRoute == runClock < MaxRuns /\ \E r \in RunRequests : RunExperiment(r)

SpecRuns == InitRuns /\ [][NextRunRoute]_vars

\* the fields C13 names, as the handler resolved them into the config: an
\* absent rubric version ref reads as version id "unknown", an absent prompt
\* version ref as id "unknown" and number 1
IdentityFields(config) ==
    <<config.datasetId, config.datasetVersionId, config.evalMode,
      config.judgeModelId, config.rubricId, RubricVersionIdOf(config),
      PromptVersionIdOf(config), PromptVersionNumberOf(config),
      config.repeats, config.ensemble>>

C14_OneRunPerIdentityKey ==
    \A i, j \in 1..Len(memory.experimentRuns) :
        memory.experimentRuns[i].identityKey
            = memory.experimentRuns[j].identityKey => i = j

\* the gates a run's config sets, and its gate of a name
ConfiguredGates(run) ==
    {g \in {"minMeanAggregateScore", "minPassRate"} :
        /\ run.config.gates # Absent
        /\ ValueOf(run.config.gates)[g] # Absent}

GateOf(run, g) == ValueOf(ValueOf(run.config.gates)[g])

\* the gates that the metrics of the run's report violate
ReportedViolations(run) ==
    {g \in ConfiguredGates(run) :
        IF g = "minMeanAggregateScore"
        THEN run.metrics.meanAggregateScore < GateOf(run, g)
        ELSE run.metrics.passRate < GateOf(run, g)}

\* the gates that the mean scoreSum / caseCount and the pass rate
\* passCount / caseCount violate, neither rounded
ComputedViolations(run, locals) ==
    {g \in ConfiguredGates(run) :
        IF g = "minMeanAggregateScore"
        THEN ~(locals.scoreSum * 100 >= GateOf(run, g) * locals.caseCount)
        ELSE ~(locals.passCount * 10000 >= GateOf(run, g) * locals.caseCount)}

\* the reasons of the run name each gate of the set once, and no other
ReasonsNameExactly(run, violated) ==
    /\ Len(run.regression.reasons) = Cardinality(violated)
    /\ {run.regression.reasons[k] : k \in 1..Len(run.regression.reasons)}
        = violated

\* C15, as stated: for every recorded run, regression.passed is true
\* exactly when the reported metrics violate no configured gate,
\* regression.reasons has one entry per violated gate, and a run whose gate
\* fails is recorded with status completed.
C15_GatesOnReportedMetrics ==
    \A i \in 1..Len(memory.experimentRuns) :
        /\ memory.experimentRuns[i].regression.passed
            = (ReportedViolations(memory.experimentRuns[i]) = {})
        /\ ReasonsNameExactly(memory.experimentRuns[i],
                              ReportedViolations(memory.experimentRuns[i]))
        /\ memory.experimentRuns[i].status = "completed"

\* C15, amended: the run a request is answered with has regression.passed
\* true exactly when its computed mean and pass rate, before they are
\* rounded for the report, violate no configured gate; regression.reasons
\* has one entry per gate violated so; and the run is recorded in the
\* repository with status completed, whether a gate fails or not.
C15_GatesOnComputedMetrics ==
    (runResp # None /\ runResp.status = 200) =>
        /\ runResp.run.regression.passed
            = (ComputedViolations(runResp.run, runLocals) = {})
        /\ ReasonsNameExactly(runResp.run,
                              ComputedViolations(runResp.run, runLocals))
        /\ runResp.run.status = "completed"
        /\ memory.experimentRuns # <<>>
        /\ memory.experimentRuns[1] = runResp.run

\* C15 witness: a run that fails both of its gates has been recorded, with
\* two reasons and status completed.
C15_Witness ==
    /\ runResp # None
    /\ runResp.status = 200
    /\ ~runResp.run.regression.passed
    /\ Len(runResp.run.regression.reasons) = 2
    /\ memory.experimentRuns[1] = runResp.run
    /\ memory.experimentRuns[1].status = "completed"

-----------------------------------------------------------------------------
(* api/experiments/compare: verdictFromDeltas on its own.  A delta is a    *)
(* finite number, held as an integer number of its smallest step.          *)

MaxDelta == 2

\* a variant of verdictFromDeltas that does not look at the cost
verdictFromQuality(scoreDelta, passDelta, costDelta) ==
    IF ~(scoreDelta > 0 \/ passDelta > 0) /\ ~(scoreDelta < 0 \/ passDelta < 0)
    THEN "inconclusive"
    ELSE IF (scoreDelta > 0 \/ passDelta > 0)
            /\ ~(scoreDelta < 0 \/ passDelta < 0)
    THEN "improved"
    ELSE IF (scoreDelta < 0 \/ passDelta < 0)
            /\ ~(scoreDelta > 0 \/ passDelta > 0)
    THEN "regressed"
    ELSE "mixed"

verdictFromDeltas(scoreDelta, passDelta, costDelta) ==
    LET improvedQuality == scoreDelta > 0 \/ passDelta > 0
        regressedQuality == scoreDelta < 0 \/ passDelta < 0
    IN IF ~improvedQuality /\ ~regressedQuality /\ costDelta = 0
       THEN "inconclusive"
       ELSE IF improvedQuality /\ ~regressedQuality /\ costDelta <= 0
       THEN "improved"
       ELSE IF regressedQuality /\ ~improvedQuality /\ costDelta >= 0
       THEN "regressed"
       ELSE "mixed"

InitCmp ==
    /\ cmpIn \in [scoreDelta : (0 - MaxDelta)..MaxDelta,
                   passDelta : (0 - MaxDelta)..MaxDelta,
                   costDelta : (0 - MaxDelta)..MaxDelta]
    /\ cmpOut = None
    /\ InitEvalIdle
    /\ InitAggIdle
    /\ InitStoreEmpty
    /\ InitFpIdle
    /\ InitRunsIdle
    /\ InitPageIdle
    /\ InitExtIdle

Compare ==
    /\ cmpOut = None
    /\ cmpOut' = [verdict |-> verdictFromDeltas(cmpIn.scoreDelta,
                                                 cmpIn.passDelta,
                                                 cmpIn.costDelta)]
    /\ UNCHANGED <<cmpIn, evalVars, aggVars, storeVars, fpVars, runVars, pageVars, extVars>>

NextCmp == Compare

SpecCmp == InitCmp /\ [][NextCmp]_vars

\* what C16 says of each verdict, for the deltas s, p and c
SaysImproved(s, p, c) == (s > 0 \/ p > 0) /\ ~(s < 0) /\ ~(p < 0) /\ c <= 0
SaysRegressed(s, p, c) == (s < 0 \/ p < 0) /\ ~(s > 0) /\ ~(p > 0) /\ c >= 0
SaysInconclusive(s, p, c) == s = 0 /\ p = 0 /\ c = 0

\* C16: the compare verdict is one of four outcomes for every three
\* deltas: improved iff the score or the pass rate rose, neither fell and
\* the cost did not rise; regressed iff the score or the pass rate fell,
\* neither rose and the cost did not fall; inconclusive iff the three
\* deltas are zero; mixed in every other case.
C16_VerdictOfDeltas ==
    cmpOut # None =>
        /\ cmpOut.verdict \in {"improved", "regressed", "inconclusive", "mixed"}
        /\ (cmpOut.verdict = "improved")
            = SaysImproved(cmpIn.scoreDelta, cmpIn.passDelta, cmpIn.costDelta)
        /\ (cmpOut.verdict = "regressed")
            = SaysRegressed(cmpIn.scoreDelta, cmpIn.passDelta, cmpIn.costDelta)
        /\ (cmpOut.verdict = "inconclusive")
            = SaysInconclusive(cmpIn.scoreDelta, cmpIn.passDelta,
                               cmpIn.costDelta)
        /\ (cmpOut.verdict = "mixed")
            = (/\ ~SaysImproved(cmpIn.scoreDelta, cmpIn.passDelta,
                                cmpIn.costDelta)
               /\ ~SaysRegressed(cmpIn.scoreDelta, cmpIn.passDelta,
                                 cmpIn.costDelta)
               /\ ~SaysInconclusive(cmpIn.scoreDelta, cmpIn.passDelta,
                                    cmpIn.costDelta))

\* C16 witness: a higher score at a higher cost has been given the verdict
\* mixed.
C16_Witness ==
    /\ cmpOut # None
    /\ cmpOut.verdict = "mixed"
    /\ cmpIn.scoreDelta > 0
    /\ cmpIn.passDelta = 0
    /\ cmpIn.costDelta > 0

-----------------------------------------------------------------------------
(* app/evaluate/batch/page.tsx: the batch page.  handleRun runs from one   *)
(* await of fetch to the next; the rows are those loaded before the run.   *)

MaxRows == 2

\* convertToRows and loadDemo: the rows of a file, all pending
LoadedRows(modes) ==
    [k \in 1..Len(modes) |->
        [index |-> k - 1, mode |-> modes[k], status |-> "pending",
         result |-> None, error |-> None]]

RowModes ==
    UNION {[1..n -> {"single", "pairwise"}] : n \in 0..MaxRows}

\* handleFileUpload and loadDemo, while no batch runs
LoadRows(modes) ==
    /\ handleRunPc = "idle"
    /\ rows' = LoadedRows(modes)
    /\ done' = FALSE
    /\ toast' = "Loaded"
    /\ UNCHANGED <<running, abortRef, handleRunPc, rowIndex>>
    /\ UNCHANGED <<evalVars, aggVars, storeVars, fpVars, runVars, cmpVars, extVars>>

\* what the fetch of a row ends in: a response with its status and the
\* error member of its body (None: none), or a rejected promise
FetchOutcomes ==
    {[kind |-> "response", status |-> 200, error |-> None],
     [kind |-> "response", status |-> 502,
      error |-> [message |-> "Judge returned invalid JSON"]],
     [kind |-> "response", status |-> 500, error |-> None],
     [kind |-> "rejected", status |-> 0,
      error |-> [message |-> "Failed to fetch"]]}

\* the row after its fetch: the setRows of the try block or of the catch
RowAfter(row, outcome) ==
    IF outcome.kind = "response" /\ outcome.status \in 200..299
    THEN [row EXCEPT !.status = "done", !.result = [status |-> outcome.status]]
    ELSE [row EXCEPT !.status = "error",
                     !.error = IF outcome.error # None THEN outcome.error
                               ELSE [message |-> "HTTP"]]

\* a variant of LoopFrom that leaves the loop after a row in error
LoopUntilError(rs, index) ==
    IF index < Len(rs) /\ ~abortRef'
       /\ (index > 0 => rs[index].status # "error")
    THEN /\ rows' = [rs EXCEPT ![index + 1].status = "running"]
         /\ rowIndex' = index
         /\ handleRunPc' = "fetch"
         /\ running' = TRUE
         /\ done' = FALSE
         /\ toast' = ""
    ELSE /\ rows' = rs
         /\ rowIndex' = index
         /\ handleRunPc' = "idle"
         /\ running' = FALSE
         /\ done' = TRUE
         /\ toast' = "Batch evaluation complete!"

\* the loop of handleRun from its head with i = index, on the rows rs: it
\* marks the row running and awaits its fetch, or leaves the loop and ends
LoopFrom(rs, index) ==
    IF index < Len(rs) /\ ~abortRef'
    THEN /\ rows' = [rs EXCEPT ![index + 1].status = "running"]
         /\ rowIndex' = index
         /\ handleRunPc' = "fetch"
         /\ running' = TRUE
         /\ done' = FALSE
         /\ toast' = ""
    ELSE /\ rows' = rs
         /\ rowIndex' = index
         /\ handleRunPc' = "idle"
         /\ running' = FALSE
         /\ done' = TRUE
         /\ toast' = "Batch evaluation complete!"

\* handleRun up to its first await; rubric: getRubric() found one
handleRun(rubric) ==
    /\ handleRunPc = "idle"
    /\ ~running
    /\ rows # <<>>
    /\ IF ~rubric
       THEN /\ toast' = "Please select a valid rubric."
            /\ UNCHANGED <<rows, running, done, abortRef, handleRunPc,
                           rowIndex>>
       ELSE /\ abortRef' = FALSE
            /\ LoopFrom([k \in 1..Len(rows) |->
                            [rows[k] EXCEPT !.status = "pending",
                                            !.result = None, !.error = None]],
                        0)
    /\ UNCHANGED <<evalVars, aggVars, storeVars, fpVars, runVars, cmpVars, extVars>>

\* the fetch of row i settles; handleRun runs to its next await or its end
RowReturns(outcome) ==
    /\ handleRunPc = "fetch"
    /\ UNCHANGED abortRef
    /\ LoopFrom([rows EXCEPT ![rowIndex + 1] = RowAfter(@, outcome)],
                rowIndex + 1)
    /\ UNCHANGED <<evalVars, aggVars, storeVars, fpVars, runVars, cmpVars, extVars>>

InitPage ==
    /\ InitPageIdle
    /\ InitExtIdle
    /\ InitEvalIdle
    /\ InitAggIdle
    /\ InitStoreEmpty
    /\ InitFpIdle
    /\ InitRunsIdle
    /\ InitCmpIdle

NextPage ==
    \/ handleRunPc = "idle" /\ \E modes \in RowModes : LoadRows(modes)
    \/ handleRunPc = "idle" /\ \E rubric \in BOOLEAN : handleRun(rubric)
    \/ handleRunPc = "fetch" /\ \E outcome \in FetchOutcomes : RowReturns(outcome)

SpecPage == InitPage /\ [][NextPage]_vars

\* the rows at positions from..to all have one of the statuses
AllIn(from, to, statuses) ==
    \A k \in from..to : rows[k].status \in statuses

C20_CancelBetweenRows ==
    /\ handleRunPc = "fetch" => ENABLED (NextPage /\ abortRef')
    /\ abortRef =>
        /\ rowIndex < Len(rows)
        /\ rows[rowIndex + 1].status \in {"running", "done", "error"}
        /\ AllIn(rowIndex + 2, Len(rows), {"pending"})

-----------------------------------------------------------------------------
(* The rubrics page (app/rubrics/page): its editor state, the criteria     *)
(* builder and the handlers New, Clone, Save New Version and Delete, over  *)
(* the store's customRubrics and rubricVersions.  editor.ids counts the    *)
(* ids nanoid() has given; a weight is a number of hundred-thousandths.    *)

\* the number of steps the rubrics page takes
MaxEdits == 4

\* the number of criteria the builder is driven to
MaxCriteria == 2

\* nanoid(): the k-th id
PageId(k) == <<"n">> \o NatToDigits(k)

\* the names typed into the name field
TypedNames == { <<" ">>, <<"Q", " ">> }

\* the percentages typed into a weight field
TypedPercents == { 0, 1, 50, 100, 150 }

\* criteria.reduce((sum, criterion) => sum + criterion.weight, 0)
RECURSIVE SumOfWeights(_, _)
SumOfWeights(criteria, n) ==
    IF n = 0 THEN 0 ELSE SumOfWeights(criteria, n - 1) + criteria[n].weight

totalWeightOf(criteria) == SumOfWeights(criteria, Len(criteria))

\* weight / total, to the hundred-thousandth
WeightOver(weight, total) ==
    ((weight * 1000) \div total) * 100
    + (((weight * 1000) % total) * 100) \div total

\* criteria.map((c) => ({ ...c, weight: c.weight / total }))
DividedByTotal(criteria, total) ==
    [i \in 1..Len(criteria) |->
        [criteria[i] EXCEPT !.weight = WeightOver(@, total)]]

\* handleSave: Math.abs(totalWeight - 1) > 0.01 ? criteria.map(...) : criteria
normalizedCriteria(criteria) ==
    IF totalWeightOf(criteria) - 100000 > 1000
       \/ 100000 - totalWeightOf(criteria) > 1000
    THEN DividedByTotal(criteria, totalWeightOf(criteria))
    ELSE criteria

\* Math.max(1, Math.min(100, Number(e.target.value))) / 100
TypedWeight(percent) ==
    (IF percent > 100 THEN 100 ELSE IF percent < 1 THEN 1 ELSE percent) * 1000

\* the state loadRubric leaves in the editor
Loaded(rubric, ids) ==
    [editingId |-> Some(rubric.id),
     name |-> rubric.name,
     description |-> rubric.description,
     criteria |-> rubric.criteria,
     ids |-> ids]

\* the rubrics listed on the page: built-in and custom
ListedRubrics ==
    {BuiltInTexts[i] : i \in 1..Len(BuiltInTexts)}
    \cup {customRubrics[i] : i \in 1..Len(customRubrics)}

\* the rubric handleNew creates
newRubric ==
    [id |-> PageId(editor.ids + 1),
     name |-> <<"N", "e", "w", " ", "R", "u", "b", "r", "i", "c">>,
     description |-> <<>>,
     criteria |-> <<>>,
     isBuiltIn |-> FALSE,
     createdAt |-> now]

\* the rubric handleClone creates: the criteria get new ids, in order
cloned(rubric) ==
    [id |-> PageId(editor.ids + 1),
     name |-> rubric.name \o <<" ", "(", "C", "o", "p", "y", ")">>,
     description |-> rubric.description,
     criteria |->
        [i \in 1..Len(rubric.criteria) |->
            [rubric.criteria[i] EXCEPT !.id = PageId(editor.ids + 1 + i)]],
     isBuiltIn |-> FALSE,
     createdAt |-> now]

\* the store's addRubric, called by the page with a rubric, and loadRubric
AddAndLoad(rubric, ids, op) ==
    /\ customRubrics' = Append(customRubrics, rubric)
    /\ rubricVersions' =
          WithVersions(rubricVersions, rubric.id,
                       AppendVersion(VersionsOf(rubricVersions, rubric.id),
                                     rubric, rubric.createdAt))
    /\ editor' = Loaded(rubric, ids)
    /\ lastOp' = [op |-> op, id |-> rubric.id]
    /\ now' = now + 1
    /\ UNCHANGED <<experimentRuns, evalVars, aggVars, fpVars, runVars,
                   cmpVars, pageVars, fnVars, histVars>>

handleNew == AddAndLoad(newRubric, editor.ids + 1, "handleNew")

handleClone(rubric) ==
    AddAndLoad(cloned(rubric), editor.ids + 1 + Len(rubric.criteria),
               "handleClone")

\* a step that changes the editor only
Edit(next, op) ==
    /\ editor' = next
    /\ lastOp' = [op |-> op, id |-> <<>>]
    /\ now' = now + 1
    /\ UNCHANGED <<customRubrics, rubricVersions, experimentRuns, evalVars,
                   aggVars, fpVars, runVars, cmpVars, pageVars, fnVars, histVars>>

\* a click on a custom rubric of the list
loadRubric(rubric) == Edit(Loaded(rubric, editor.ids), "loadRubric")

setName(text) == Edit([editor EXCEPT !.name = text], "setName")

\* the builder's handleAdd
handleAdd ==
    /\ Len(editor.criteria) < MaxCriteria
    /\ Edit([editor EXCEPT
               !.criteria = Append(@, [id |-> PageId(editor.ids + 1),
                                       name |-> <<>>,
                                       description |-> <<>>,
                                       weight |-> 25000,
                                       scoreRange |-> 5]),
               !.ids = @ + 1],
            "handleAdd")

\* the builder's handleChange for the weight field of the i-th criterion
changeWeight(i, percent) ==
    /\ i \in 1..Len(editor.criteria)
    /\ Edit([editor EXCEPT !.criteria[i].weight = TypedWeight(percent)],
            "changeWeight")

\* the builder's handleDelete for the i-th criterion
deleteCriterion(i) ==
    /\ i \in 1..Len(editor.criteria)
    /\ Edit([editor EXCEPT
               !.criteria = SelectSeq(@, LAMBDA c : c.id # editor.criteria[i].id)],
            "deleteCriterion")

\* the builder's normalizeWeights
normalizeWeights ==
    /\ Len(editor.criteria) > 0
    /\ totalWeightOf(editor.criteria) # 0
    /\ Edit([editor EXCEPT
               !.criteria = DividedByTotal(@, totalWeightOf(@))],
            "normalizeWeights")

\* handleSave: the early returns, then the store's updateRubric
handleSave ==
    /\ editor.editingId # Absent
    /\ IF Trim(editor.name) = <<>> \/ Len(editor.criteria) = 0
       THEN /\ lastOp' = [op |-> "handleSaveRejected", id |-> <<>>]
            /\ UNCHANGED <<customRubrics, rubricVersions>>
       ELSE LET id == ValueOf(editor.editingId)
                patch == [name |-> Trim(editor.name),
                          description |-> Trim(editor.description),
                          criteria |-> normalizedCriteria(editor.criteria)]
            IN /\ customRubrics' = UpdatedRubrics(customRubrics, id, patch)
               /\ IF ~HasRubric(customRubrics, id)
                  THEN UNCHANGED rubricVersions
                  ELSE rubricVersions' =
                         WithVersions(rubricVersions, id,
                            AppendVersion(VersionsOf(rubricVersions, id),
                               FindRubric(UpdatedRubrics(customRubrics, id, patch),
                                          id),
                               now))
               /\ lastOp' = [op |-> "handleSave", id |-> id]
    /\ now' = now + 1
    /\ UNCHANGED <<editor, experimentRuns, evalVars, aggVars, fpVars, runVars,
                   cmpVars, pageVars, fnVars, histVars>>

\* the page's handleDelete: the store's deleteRubric, then the editor reset
handleDelete(id) ==
    /\ customRubrics' = SelectSeq(customRubrics, LAMBDA r : r.id # id)
    /\ rubricVersions' =
          [k \in DOMAIN rubricVersions \ {id} |-> rubricVersions[k]]
    /\ editor' = IF editor.editingId = Some(id)
                 THEN [editor EXCEPT !.editingId = Absent, !.name = <<>>,
                                     !.description = <<>>, !.criteria = <<>>]
                 ELSE editor
    /\ lastOp' = [op |-> "handleDelete", id |-> id]
    /\ now' = now + 1
    /\ UNCHANGED <<experimentRuns, evalVars, aggVars, fpVars, runVars,
                   cmpVars, pageVars, fnVars, histVars>>

\* the page opened on a store that holds the persisted custom rubrics
InitRubricsPage ==
    /\ \E legacy \in LegacyRubrics :
        /\ customRubrics = legacy
        /\ rubricVersions = ensureRubricVersionMap(legacy, <<>>)
        /\ editor = [editingId |-> IF Len(legacy) > 0
                                   THEN Some(legacy[1].id) ELSE Absent,
                     name |-> <<>>, description |-> <<>>, criteria |-> <<>>,
                     ids |-> 0]
    /\ experimentRuns = <<>>
    /\ lastOp = [op |-> "merge", id |-> <<>>]
    /\ now = 1
    /\ InitEvalIdle
    /\ InitAggIdle
    /\ InitFpIdle
    /\ InitRunsIdle
    /\ InitCmpIdle
    /\ InitPageIdle
    /\ InitFnIdle
    /\ InitHistIdle

NextRubricsPage ==
    \/ now <= MaxEdits /\ handleNew
    \/ now <= MaxEdits /\ \E rubric \in ListedRubrics : handleClone(rubric)
    \/ now <= MaxEdits
       /\ \E i \in 1..Len(customRubrics) : loadRubric(customRubrics[i])
    \/ now <= MaxEdits /\ \E text \in TypedNames : setName(text)
    \/ now <= MaxEdits /\ handleAdd
    \/ now <= MaxEdits
       /\ \E i \in 1..MaxCriteria, percent \in TypedPercents :
            changeWeight(i, percent)
    \/ now <= MaxEdits /\ \E i \in 1..MaxCriteria : deleteCriterion(i)
    \/ now <= MaxEdits /\ normalizeWeights
    \/ now <= MaxEdits /\ handleSave
    \/ now <= MaxEdits
       /\ \E i \in 1..Len(customRubrics) : handleDelete(customRubrics[i].id)

SpecRubricsPage == InitRubricsPage /\ [][NextRubricsPage]_vars

\* a criteria list is not empty and its weights sum to within 0.02 of 1.0
WeightsSumToOne(criteria) ==
    /\ Len(criteria) > 0
    /\ totalWeightOf(criteria) - 100000 <= 2000
    /\ 100000 - totalWeightOf(criteria) <= 2000

\* C21: every rubric that New, Clone and Save New Version put into the
\* store's customRubrics has a non-empty criteria list whose weights sum to
\* within 0.02 of 1.0.
C21_StoredRubricsSumToOne ==
    \A i \in 1..Len(customRubrics) : WeightsSumToOne(customRubrics[i].criteria)

-----------------------------------------------------------------------------
(* lib/rubric-templates: buildPairwisePrompt, the prompt as the sequence   *)
(* of its characters.  A character outside ASCII is written by its code    *)
(* point: "u2014" is the em dash and "u2013" the en dash.                  *)

\* buildPairwisePrompt: the template up to ${contextBlock}
PromptHead ==
    <<"Y", "o", "u", " ", "a", "r", "e", " ", "a", "n", " ", "e", "x", "p",
      "e", "r", "t", " ", "L", "L", "M", " ", "r", "e", "s", "p", "o", "n",
      "s", "e", " ", "e", "v", "a", "l", "u", "a", "t", "o", "r", ".", " ",
      "Y", "o", "u", "r", " ", "j", "o", "b", " ", "i", "s", " ", "t", "o",
      " ", "c", "o", "m", "p", "a", "r", "e", " ", "t", "w", "o", " ", "r",
      "e", "s", "p", "o", "n", "s", "e", "s", " ", "t", "o", " ", "t", "h",
      "e", " ", "s", "a", "m", "e", " ", "p", "r", "o", "m", "p", "t", " ",
      "a", "n", "d", " ", "d", "e", "t", "e", "r", "m", "i", "n", "e", " ",
      "w", "h", "i", "c", "h", " ", "i", "s", " ", "b", "e", "t", "t", "e",
      "r", ".", "\n", "\n", "#", "#", " ", "C", "r", "i", "t", "i", "c", "a",
      "l", " ", "I", "n", "s", "t", "r", "u", "c", "t", "i", "o", "n", "s",
      "\n", "-", " ", "A", "n", "a", "l", "y", "z", "e", " ", "c", "a", "r",
      "e", "f", "u", "l", "l", "y", ",", " ", "b", "u", "t", " ", "o", "u",
      "t", "p", "u", "t", " ", "o", "n", "l", "y", " ", "c", "o", "n", "c",
      "i", "s", "e", " ", "r", "a", "t", "i", "o", "n", "a", "l", "e", " ",
      "i", "n", " ", "\"", "c", "h", "a", "i", "n", "_", "o", "f", "_", "t",
      "h", "o", "u", "g", "h", "t", "\"", " ", "(", "3", "-", "6", " ", "b",
      "u", "l", "l", "e", "t", "s", ")", ".", "\n", "-", " ", "E", "v", "a",
      "l", "u", "a", "t", "e", " ", "e", "a", "c", "h", " ", "r", "e", "s",
      "p", "o", "n", "s", "e", " ", "I", "N", "D", "E", "P", "E", "N", "D",
      "E", "N", "T", "L", "Y", " ", "b", "e", "f", "o", "r", "e", " ", "c",
      "o", "m", "p", "a", "r", "i", "n", "g", " ", "t", "h", "e", "m", " ",
      "u2014", " ", "d", "o", " ", "n", "o", "t", " ", "l", "e", "t", " ",
      "y", "o", "u", "r", " ", "i", "m", "p", "r", "e", "s", "s", "i", "o",
      "n", " ", "o", "f", " ", "o", "n", "e", " ", "a", "f", "f", "e", "c",
      "t", " ", "y", "o", "u", "r", " ", "s", "c", "o", "r", "i", "n", "g",
      " ", "o", "f", " ", "t", "h", "e", " ", "o", "t", "h", "e", "r", ".",
      "\n", "-", " ", "R", "e", "s", "p", "o", "n", "s", "e", " ", "L", "E",
      "N", "G", "T", "H", " ", "i", "s", " ", "N", "O", "T", " ", "a", " ",
      "p", "r", "o", "x", "y", " ", "f", "o", "r", " ", "q", "u", "a", "l",
      "i", "t", "y", ".", " ", "P", "r", "e", "f", "e", "r", " ", "s", "u",
      "b", "s", "t", "a", "n", "c", "e", ",", " ", "a", "c", "c", "u", "r",
      "a", "c", "y", ",", " ", "a", "n", "d", " ", "r", "e", "l", "e", "v",
      "a", "n", "c", "e", " ", "o", "v", "e", "r", " ", "v", "e", "r", "b",
      "o", "s", "i", "t", "y", ".", "\n", "-", " ", "G", "u", "a", "r", "d",
      " ", "a", "g", "a", "i", "n", "s", "t", " ", "P", "O", "S", "I", "T",
      "I", "O", "N", " ", "B", "I", "A", "S", ":", " ", "d", "o", " ", "n",
      "o", "t", " ", "f", "a", "v", "o", "r", " ", "a", " ", "r", "e", "s",
      "p", "o", "n", "s", "e", " ", "s", "i", "m", "p", "l", "y", " ", "b",
      "e", "c", "a", "u", "s", "e", " ", "i", "t", " ", "a", "p", "p", "e",
      "a", "r", "s", " ", "f", "i", "r", "s", "t", " ", "o", "r", " ", "s",
      "e", "c", "o", "n", "d", ".", "\n", "-", " ", "U", "s", "e", " ", "t",
      "h", "e", " ", "F", "U", "L", "L", " ", "s", "c", "o", "r", "e", " ",
      "r", "a", "n", "g", "e", " ", "u2014", " ", "d", "o", " ", "n", "o",
      "t", " ", "c", "l", "u", "s", "t", "e", "r", " ", "s", "c", "o", "r",
      "e", "s", " ", "n", "e", "a", "r", " ", "t", "h", "e", " ", "m", "i",
      "d", "d", "l", "e", ".", "\n", "-", " ", "T", "h", "e", " ", "v", "e",
      "r", "d", "i", "c", "t", " ", "m", "u", "s", "t", " ", "b", "e", " ",
      "e", "x", "a", "c", "t", "l", "y", " ", "\"", "A", "\"", ",", " ",
      "\"", "B", "\"", ",", " ", "o", "r", " ", "\"", "t", "i", "e", "\"",
      ".", " ", "R", "e", "s", "e", "r", "v", "e", " ", "\"", "t", "i", "e",
      "\"", " ", "f", "o", "r", " ", "c", "a", "s", "e", "s", " ", "w", "h",
      "e", "r", "e", " ", "b", "o", "t", "h", " ", "r", "e", "s", "p", "o",
      "n", "s", "e", "s", " ", "a", "r", "e", " ", "g", "e", "n", "u", "i",
      "n", "e", "l", "y", " ", "e", "q", "u", "i", "v", "a", "l", "e", "n",
      "t", " ", "i", "n", " ", "q", "u", "a", "l", "i", "t", "y", ".", "\n",
      "-", " ", "O", "u", "t", "p", "u", "t", " ", "O", "N", "L", "Y", " ",
      "v", "a", "l", "i", "d", " ", "J", "S", "O", "N", " ", "m", "a", "t",
      "c", "h", "i", "n", "g", " ", "t", "h", "e", " ", "e", "x", "a", "c",
      "t", " ", "s", "c", "h", "e", "m", "a", " ", "b", "e", "l", "o", "w",
      ".", " ", "N", "o", " ", "m", "a", "r", "k", "d", "o", "w", "n", " ",
      "c", "o", "d", "e", " ", "f", "e", "n", "c", "e", "s", ",", " ", "n",
      "o", " ", "e", "x", "t", "r", "a", " ", "t", "e", "x", "t", ".", "\n">>

\* the heading of the prompt given to the model
PromptAsk ==
    <<"\n", "#", "#", " ", "P", "r", "o", "m", "p", "t", " ", "G", "i", "v",
      "e", "n", " ", "t", "o", " ", "t", "h", "e", " ", "L", "L", "M", "\n">>

\* the mark before a response heading
HeadingMark ==
    <<"\n", "\n", "#", "#", " ">>

\* the heading of the rubric
RubricMark ==
    <<"\n", "\n", "#", "#", " ", "R", "u", "b", "r", "i", "c", ":", " ">>

\* the heading of the criteria
CriteriaMark ==
    <<"\n", "\n", "#", "#", "#", " ", "C", "r", "i", "t", "e", "r", "i", "a",
      "\n">>

\* the heading of the output schema
SchemaMark ==
    <<"\n", "\n", "#", "#", " ", "O", "u", "t", "p", "u", "t", " ", "S", "c",
      "h", "e", "m", "a", " ", "(", "o", "u", "t", "p", "u", "t", " ", "t",
      "h", "i", "s", " ", "J", "S", "O", "N", " ", "a", "n", "d", " ", "n",
      "o", "t", "h", "i", "n", "g", " ", "e", "l", "s", "e", ")", "\n">>

\* formatPairwiseOutputSchema: fixed text 1 of the template
SchemaPart1 ==
    <<"{", "\n", " ", " ", "\"", "c", "h", "a", "i", "n", "_", "o", "f", "_",
      "t", "h", "o", "u", "g", "h", "t", "\"", ":", " ", "\"", "<", "C", "o",
      "n", "c", "i", "s", "e", " ", "c", "o", "m", "p", "a", "r", "i", "s",
      "o", "n", " ", "r", "a", "t", "i", "o", "n", "a", "l", "e", " ", "(",
      "3", "-", "6", " ", "s", "h", "o", "r", "t", " ", "b", "u", "l", "l",
      "e", "t", " ", "p", "o", "i", "n", "t", "s", ")", " ", "c", "o", "v",
      "e", "r", "i", "n", "g", " ", "A", ",", " ", "B", ",", " ", "a", "n",
      "d", " ", "f", "i", "n", "a", "l", " ", "t", "r", "a", "d", "e", "o",
      "f", "f", ".", ">", "\"", ",", "\n", " ", " ", "\"", "s", "c", "o",
      "r", "e", "s", "\"", ":", " ", "{", "\n">>

\* formatPairwiseOutputSchema: fixed text 2 of the template
SchemaPart2 ==
    <<",", "\n">>

\* formatPairwiseOutputSchema: fixed text 3 of the template
SchemaPart3 ==
    <<"\n", " ", " ", "}", ",", "\n", " ", " ", "\"", "c", "r", "i", "t",
      "e", "r", "i", "o", "n", "_", "r", "e", "a", "s", "o", "n", "i", "n",
      "g", "\"", ":", " ", "{", "\n">>

\* formatPairwiseOutputSchema: fixed text 4 of the template
SchemaPart4 ==
    <<",", "\n">>

\* formatPairwiseOutputSchema: fixed text 5 of the template
SchemaPart5 ==
    <<"\n", " ", " ", "}", ",", "\n", " ", " ", "\"", "s", "u", "m", "m",
      "a", "r", "y", "\"", ":", " ", "\"", "<", "2", "-", "3", " ", "s", "e",
      "n", "t", "e", "n", "c", "e", " ", "o", "v", "e", "r", "a", "l", "l",
      " ", "c", "o", "m", "p", "a", "r", "i", "s", "o", "n", " ", "s", "u",
      "m", "m", "a", "r", "y", ">", "\"", ",", "\n", " ", " ", "\"", "a",
      "g", "g", "r", "e", "g", "a", "t", "e", "_", "s", "c", "o", "r", "e",
      "_", "A", "\"", ":", " ", "<", "f", "l", "o", "a", "t", " ", "b", "e",
      "t", "w", "e", "e", "n", " ", "0", ".", "0", " ", "a", "n", "d", " ",
      "1", "0", "0", ".", "0", ">", ",", "\n", " ", " ", "\"", "a", "g", "g",
      "r", "e", "g", "a", "t", "e", "_", "s", "c", "o", "r", "e", "_", "B",
      "\"", ":", " ", "<", "f", "l", "o", "a", "t", " ", "b", "e", "t", "w",
      "e", "e", "n", " ", "0", ".", "0", " ", "a", "n", "d", " ", "1", "0",
      "0", ".", "0", ">", ",", "\n", " ", " ", "\"", "v", "e", "r", "d", "i",
      "c", "t", "\"", ":", " ", "\"", "<", "e", "x", "a", "c", "t", "l", "y",
      " ", "o", "n", "e", " ", "o", "f", ":", " ", "'", "A", "'", ",", " ",
      "'", "B", "'", ",", " ", "o", "r", " ", "'", "t", "i", "e", "'", ">",
      "\"", ",", "\n", " ", " ", "\"", "v", "e", "r", "d", "i", "c", "t",
      "_", "r", "e", "a", "s", "o", "n", "i", "n", "g", "\"", ":", " ", "\"",
      "<", "2", "-", "3", " ", "s", "e", "n", "t", "e", "n", "c", "e", "s",
      " ", "e", "x", "p", "l", "a", "i", "n", "i", "n", "g", " ", "y", "o",
      "u", "r", " ", "v", "e", "r", "d", "i", "c", "t", " ", "u2014", " ",
      "w", "h", "i", "c", "h", " ", "r", "e", "s", "p", "o", "n", "s", "e",
      " ", "b", "e", "t", "t", "e", "r", " ", "s", "e", "r", "v", "e", "d",
      " ", "t", "h", "e", " ", "u", "s", "e", "r", "'", "s", " ", "n", "e",
      "e", "d", " ", "a", "n", "d", " ", "w", "h", "y", ".", " ", "I", "f",
      " ", "'", "t", "i", "e", "'", ",", " ", "e", "x", "p", "l", "a", "i",
      "n", " ", "w", "h", "y", " ", "b", "o", "t", "h", " ", "a", "r", "e",
      " ", "g", "e", "n", "u", "i", "n", "e", "l", "y", " ", "e", "q", "u",
      "i", "v", "a", "l", "e", "n", "t", ".", ">", "\"", "\n", "}">>

\* labelContext when doubleBlind
BlindContext ==
    <<"\n", "#", "#", " ", "E", "v", "a", "l", "u", "a", "t", "i", "o", "n",
      " ", "M", "o", "d", "e", "\n", "D", "o", "u", "b", "l", "e", "-", "b",
      "l", "i", "n", "d", ".", " ", "M", "o", "d", "e", "l", " ", "i", "d",
      "e", "n", "t", "i", "t", "i", "e", "s", " ", "a", "r", "e", " ", "i",
      "n", "t", "e", "n", "t", "i", "o", "n", "a", "l", "l", "y", " ", "h",
      "i", "d", "d", "e", "n", ".">>

\* labelContext otherwise, up to the first label
OpenContext ==
    <<"\n", "#", "#", " ", "E", "v", "a", "l", "u", "a", "t", "i", "o", "n",
      " ", "M", "o", "d", "e", "\n", "N", "o", "t", " ", "b", "l", "i", "n",
      "d", ".", " ", "L", "a", "b", "e", "l", "s", " ", "a", "r", "e", " ",
      "p", "r", "o", "v", "i", "d", "e", "d", ":", "\n", "-", " ", "R", "e",
      "s", "p", "o", "n", "s", "e", " ", "A", " ", "l", "a", "b", "e", "l",
      ":", " ">>

\* labelContext otherwise, between the labels
OpenContextB ==
    <<"\n", "-", " ", "R", "e", "s", "p", "o", "n", "s", "e", " ", "B", " ",
      "l", "a", "b", "e", "l", ":", " ">>

\* contextBlock before the context
ContextMark ==
    <<"\n", "#", "#", " ", "R", "e", "f", "e", "r", "e", "n", "c", "e", " ",
      "C", "o", "n", "t", "e", "x", "t", " ", "/", " ", "S", "y", "s", "t",
      "e", "m", " ", "P", "r", "o", "m", "p", "t", "\n">>

\* lines.join(sep), for the first n lines
RECURSIVE JoinUpTo(_, _, _)
JoinUpTo(lines, sep, n) ==
    IF n = 0 THEN <<>>
    ELSE IF n = 1 THEN lines[1]
    ELSE JoinUpTo(lines, sep, n - 1) \o sep \o lines[n]

JoinWith(lines, sep) == JoinUpTo(lines, sep, Len(lines))

\* (c.weight * 100).toFixed(0), the weight a number of hundred-thousandths
PercentText(weight) == NatToDigits((weight + 500) \div 1000)

formatCriteriaBlock(rubric) ==
    JoinWith([i \in 1..Len(rubric.criteria) |->
                NatToDigits(i) \o <<".", " ", "*", "*">> \o rubric.criteria[i].name
                \o <<"*", "*", " ", "(", "w", "e", "i", "g", "h", "t", ":", " ">> \o PercentText(rubric.criteria[i].weight)
                \o <<"%", ",", " ", "s", "c", "o", "r", "e", " ", "r", "a", "n", "g", "e", ":", " ", "1", "u2013">>
                \o NatToDigits(rubric.criteria[i].scoreRange)
                \o <<")", "\n", " ", " ", " ">> \o rubric.criteria[i].description],
             <<"\n">>)

\* scoreKeysA and scoreKeysB, side being "A" or "B"
scoreKeys(rubric, side) ==
    JoinWith([i \in 1..Len(rubric.criteria) |->
                <<" ", " ", " ", " ", "\"">> \o rubric.criteria[i].id \o <<"_", side>>
                \o <<"\"", ":", " ", "<", "i", "n", "t", "e", "g", "e", "r", " ", "b", "e", "t", "w", "e", "e", "n", " ", "1", " ", "a", "n", "d", " ">>
                \o NatToDigits(rubric.criteria[i].scoreRange) \o <<">">>],
             <<",", "\n">>)

\* reasoningKeysA and reasoningKeysB
reasoningKeys(rubric, side) ==
    JoinWith([i \in 1..Len(rubric.criteria) |->
                <<" ", " ", " ", " ", "\"">> \o rubric.criteria[i].id \o <<"_", side>>
                \o <<"_", "r", "e", "a", "s", "o", "n", "i", "n", "g", "\"", ":", " ", "\"", "<", "e", "x", "p", "l", "a", "n", "a", "t", "i", "o", "n", ">", "\"">>],
             <<",", "\n">>)

formatPairwiseOutputSchema(rubric) ==
    SchemaPart1 \o scoreKeys(rubric, "A")
    \o SchemaPart2 \o scoreKeys(rubric, "B")
    \o SchemaPart3 \o reasoningKeys(rubric, "A")
    \o SchemaPart4 \o reasoningKeys(rubric, "B")
    \o SchemaPart5

\* label?.trim() || fallback, the label an optional member
LabelOr(label, fallback) ==
    IF label = Absent THEN fallback
    ELSE IF Trim(ValueOf(label)) = <<>> THEN fallback
    ELSE Trim(ValueOf(label))

\* labelFirst and labelSecond
labelFirst(input, order) ==
    IF order = "AB" THEN LabelOr(input.modelLabelA, <<"M", "o", "d", "e", "l", " ", "A">>)
    ELSE LabelOr(input.modelLabelB, <<"M", "o", "d", "e", "l", " ", "B">>)

labelSecond(input, order) ==
    IF order = "AB" THEN LabelOr(input.modelLabelB, <<"M", "o", "d", "e", "l", " ", "B">>)
    ELSE LabelOr(input.modelLabelA, <<"M", "o", "d", "e", "l", " ", "A">>)

\* responseAHeading and responseBHeading, side being "A" or "B"
responseHeading(input, side, label) ==
    IF input.doubleBlind THEN <<"R", "e", "s", "p", "o", "n", "s", "e", " ">> \o <<side>>
    ELSE <<"R", "e", "s", "p", "o", "n", "s", "e", " ">> \o <<side>> \o <<" ", "(">> \o label \o <<")">>

\* input.context ? ... : "", the context an optional member
contextBlock(input) ==
    IF input.context = Absent \/ ValueOf(input.context) = <<>> THEN <<>>
    ELSE ContextMark \o ValueOf(input.context) \o <<"\n">>

\* a variant of labelContext that names the labels in either mode
labelContextNamed(input, order) ==
    OpenContext \o labelFirst(input, order)
    \o OpenContextB \o labelSecond(input, order)

labelContext(input, order) ==
    IF input.doubleBlind THEN BlindContext
    ELSE OpenContext \o labelFirst(input, order)
         \o OpenContextB \o labelSecond(input, order)

buildPairwisePrompt(input, rubric, order) ==
    PromptHead \o contextBlock(input) \o <<"\n">>
    \o labelContext(input, order) \o PromptAsk \o input.prompt
    \o HeadingMark \o responseHeading(input, "A", labelFirst(input, order))
    \o <<"\n">> \o (IF order = "AB" THEN input.responseA ELSE input.responseB)
    \o HeadingMark \o responseHeading(input, "B", labelSecond(input, order))
    \o <<"\n">> \o (IF order = "AB" THEN input.responseB ELSE input.responseA)
    \o RubricMark \o rubric.name \o <<"\n">> \o rubric.description
    \o CriteriaMark \o formatCriteriaBlock(rubric)
    \o SchemaMark \o formatPairwiseOutputSchema(rubric)

\* runPairwiseEval: the input it builds from its arguments and the prompt it
\* sends to the judge
judgePrompt(request, rubric, order) ==
    buildPairwisePrompt([prompt |-> request.prompt,
                         responseA |-> request.responseA,
                         responseB |-> request.responseB,
                         doubleBlind |-> request.doubleBlind,
                         modelLabelA |-> request.modelLabelA,
                         modelLabelB |-> request.modelLabelB,
                         context |-> request.context],
                        rubric, order)

\* the labels a request carries: none, an empty one, blanks, and names
PromptLabels ==
    { Absent, Some(<<" ">>), Some(<<"X">>), Some(<<" ", "Y", "\n">>) }

\* the pairwise requests the prompts are built for
PromptRequests ==
    { [prompt |-> <<"p">>, responseA |-> <<"a">>, responseB |-> <<"b">>,
       doubleBlind |-> blind, modelLabelA |-> labelA, modelLabelB |-> labelB,
       context |-> context] :
         blind \in BOOLEAN, labelA \in PromptLabels, labelB \in PromptLabels,
         context \in {Absent, Some(<<"c">>)} }

\* the rubrics they are built with
PromptRubrics ==
    { BuiltInOverallText, FpBase }

\* two requests that differ in their labels at most, a rubric and an order
InitPrompt ==
    /\ \E request \in PromptRequests,
          labelA \in PromptLabels, labelB \in PromptLabels,
          rubric \in PromptRubrics, order \in {"AB", "BA"} :
            fnIn = [fn |-> "judgePrompt",
                    request |-> request,
                    relabelled |-> [request EXCEPT !.modelLabelA = labelA,
                                                   !.modelLabelB = labelB],
                    rubric |-> rubric,
                    order |-> order]
    /\ fnOut = None
    /\ InitEvalIdle
    /\ InitAggIdle
    /\ InitStoreEmpty
    /\ InitFpIdle
    /\ InitRunsIdle
    /\ InitCmpIdle
    /\ InitPageIdle
    /\ InitEdIdle
    /\ InitHistIdle

\* the prompts of the two requests
BuildPrompts ==
    /\ fnOut = None
    /\ fnOut' = [first |-> judgePrompt(fnIn.request, fnIn.rubric, fnIn.order),
                 second |-> judgePrompt(fnIn.relabelled, fnIn.rubric,
                                        fnIn.order)]
    /\ UNCHANGED <<fnIn, evalVars, aggVars, storeVars, fpVars, runVars,
                   cmpVars, pageVars, edVars, histVars>>

NextPrompt == BuildPrompts

SpecPrompt == InitPrompt /\ [][NextPrompt]_vars

\* C22: with doubleBlind true the prompt sent to the judge does not depend
\* on modelLabelA or modelLabelB: two requests that differ only in those
\* labels get the same prompt, in the AB order and in the BA order.
C22_BlindPromptIgnoresLabels ==
    fnOut # None /\ fnIn.request.doubleBlind => fnOut.first = fnOut.second

\* C22 witness: a double-blind request and its relabelling, whose labels
\* read X, Y against the defaults Model A, Model B, get one and the same
\* prompt in the BA order.
C22_Witness ==
    /\ fnOut # None
    /\ fnIn.request.doubleBlind
    /\ fnIn.order = "BA"
    /\ fnIn.request.modelLabelA = Some(<<"X">>)
    /\ fnIn.request.modelLabelB = Some(<<" ", "Y", "\n">>)
    /\ fnIn.relabelled.modelLabelA = Absent
    /\ fnIn.relabelled.modelLabelB = Some(<<" ">>)
    /\ fnOut.first = fnOut.second
    /\ Len(fnOut.first) > Len(PromptHead)

-----------------------------------------------------------------------------
(* api/judge-qa/calibrate: cohenKappa.  The number it returns is held as   *)
(* the exact quotient num / den of two integers, den positive.             *)

\* the longest verdict sequence handed to cohenKappa
MaxVerdicts == 3

\* const labels: PairwiseVerdict[] = ["A", "B", "tie"]
labels == <<"A", "B", "tie">>

\* the verdict sequences of the lengths 0 to n
RECURSIVE VerdictSeqs(_)
VerdictSeqs(n) ==
    IF n = 0 THEN {<<>>}
    ELSE VerdictSeqs(n - 1)
         \cup [1..n -> {labels[i] : i \in 1..Len(labels)}]

\* the value of "observed" after the first n rounds of the loop
RECURSIVE observedUpTo(_, _, _)
observedUpTo(human, judge, n) ==
    IF n = 0 THEN 0
    ELSE observedUpTo(human, judge, n - 1)
         + (IF human[n] = judge[n] THEN 1 ELSE 0)

\* humanCounts[label] and judgeCounts[label] after the first n rounds
RECURSIVE countUpTo(_, _, _)
countUpTo(verdicts, label, n) ==
    IF n = 0 THEN 0
    ELSE countUpTo(verdicts, label, n - 1)
         + (IF verdicts[n] = label THEN 1 ELSE 0)

\* pe times n * n: the sum of humanCounts[label] * judgeCounts[label]
RECURSIVE chanceUpTo(_, _, _)
chanceUpTo(human, judge, k) ==
    IF k = 0 THEN 0
    ELSE chanceUpTo(human, judge, k - 1)
         + countUpTo(human, labels[k], Len(human))
           * countUpTo(judge, labels[k], Len(human))

\* the quotient num / den
Quotient(num, den) == [num |-> num, den |-> den]

\* a variant of cohenKappa that answers 1 where the chance agreement is 1
cohenKappaOfOne(human, judge) ==
    IF Len(human) = 0 \/ Len(judge) = 0 \/ Len(human) # Len(judge)
    THEN Quotient(0, 1)
    ELSE IF chanceUpTo(human, judge, Len(labels)) * 1000000
            >= 999999 * Len(human) * Len(human)
    THEN Quotient(1, 1)
    ELSE Quotient(observedUpTo(human, judge, Len(human)) * Len(human)
                    - chanceUpTo(human, judge, Len(labels)),
                  Len(human) * Len(human)
                    - chanceUpTo(human, judge, Len(labels)))

\* cohenKappa: p0 = observed / n, pe = sum / (n * n), and
\* (p0 - pe) / (1 - pe) = (observed * n - sum) / (n * n - sum)
cohenKappa(human, judge) ==
    IF Len(human) = 0 \/ Len(judge) = 0 \/ Len(human) # Len(judge)
    THEN Quotient(0, 1)
    ELSE IF chanceUpTo(human, judge, Len(labels)) * 1000000
            >= 999999 * Len(human) * Len(human)
    THEN Quotient(0, 1)
    ELSE Quotient(observedUpTo(human, judge, Len(human)) * Len(human)
                    - chanceUpTo(human, judge, Len(labels)),
                  Len(human) * Len(human)
                    - chanceUpTo(human, judge, Len(labels)))

InitKappa ==
    /\ \E human \in VerdictSeqs(MaxVerdicts), judge \in VerdictSeqs(MaxVerdicts) :
         fnIn = [fn |-> "cohenKappa", human |-> human, judge |-> judge]
    /\ fnOut = None
    /\ InitEvalIdle
    /\ InitAggIdle
    /\ InitStoreEmpty
    /\ InitFpIdle
    /\ InitRunsIdle
    /\ InitCmpIdle
    /\ InitPageIdle
    /\ InitEdIdle
    /\ InitHistIdle

Kappa ==
    /\ fnOut = None
    /\ fnOut' = cohenKappa(fnIn.human, fnIn.judge)
    /\ UNCHANGED <<fnIn, evalVars, aggVars, storeVars, fpVars, runVars,
                   cmpVars, pageVars, edVars, histVars>>

NextKappa == Kappa

SpecKappa == InitKappa /\ [][NextKappa]_vars

\* both raters use one and the same label throughout
OneLabelThroughout(human, judge) ==
    /\ Len(human) > 0
    /\ Len(human) = Len(judge)
    /\ \E label \in {labels[i] : i \in 1..Len(labels)} :
         /\ \A i \in 1..Len(human) : human[i] = label
         /\ \A i \in 1..Len(judge) : judge[i] = label

\* C23: cohenKappa(human, judge) lies in [-1, 1] for every pair of
\* equal-length non-empty verdict sequences over A, B, tie; it is 0 when
\* both raters use one and the same label throughout (pe = 1), and 0 when
\* either sequence is empty or the lengths differ.
C23_KappaRange ==
    fnOut # None =>
        /\ fnOut.den > 0
        /\ -fnOut.den <= fnOut.num
        /\ fnOut.num <= fnOut.den
        /\ OneLabelThroughout(fnIn.human, fnIn.judge) => fnOut.num = 0
        /\ Len(fnIn.human) = 0 \/ Len(fnIn.judge) = 0
              \/ Len(fnIn.human) # Len(fnIn.judge) => fnOut.num = 0

\* C23 witness: kappa is -1 for two raters who never agree over two labels,
\* each label used half of the time by either.
C23_Witness ==
    /\ fnOut # None
    /\ fnIn.human = <<"A", "B">>
    /\ fnIn.judge = <<"B", "A">>
    /\ fnOut.num = -fnOut.den

-----------------------------------------------------------------------------
(* lib/store: experimentRuns and its projection, history.  A state of the  *)
(* store is also what localStorage holds of it; before the application is  *)
(* loaded it is what an earlier session left there, which for a session of *)
(* the version without runs is a history and no experimentRuns.            *)

\* the runs the experiments page receives from the server and adds
ServerRuns ==
    { [id |-> <<"exp-", n>>,
       identityKey |-> <<"key">>,
       createdAt |-> createdAt,
       runType |-> "dataset",
       sourceEvalResultIds |-> <<>>] : n \in 1..2, createdAt \in 1..2 }

\* the results of the evaluation pages: e1 in two forms, e2, and e3 as old
\* as e1
HistoryResults ==
    { [id |-> "e1", mode |-> "single", rubric |-> BuiltInOverallText,
       createdAt |-> 2],
      [id |-> "e1", mode |-> "pairwise", rubric |-> BuiltInOverallText,
       createdAt |-> 3],
      [id |-> "e2", mode |-> "pairwise", rubric |-> BuiltInOverallText,
       createdAt |-> 1],
      [id |-> "e3", mode |-> "single", rubric |-> FpBase, createdAt |-> 2] }

\* the histories a session of the version without runs left: at most two
\* results of different ids
LegacyHistories ==
    { <<>> }
    \cup { <<r>> : r \in HistoryResults }
    \cup { h \in [1..2 -> HistoryResults] : h[1].id # h[2].id }

addExperimentRun(run) ==
    /\ lastOp.op # "persisted"
    /\ experimentRuns' = NextRuns(run)
    /\ history' = historyFromRuns(NextRuns(run))
    /\ lastOp' = [op |-> "addExperimentRun", id |-> run.id]
    /\ now' = now + 1
    /\ UNCHANGED <<customRubrics, rubricVersions, evalVars, aggVars, fpVars,
                   runVars, cmpVars, pageVars, edVars, fnVars>>

\* state.experimentRuns.filter((r) => r.id !== runId)
RunsWithout(runId) == SelectSeq(experimentRuns, LAMBDA r : r.id # runId)

removeExperimentRun(runId) ==
    /\ lastOp.op # "persisted"
    /\ experimentRuns' = RunsWithout(runId)
    /\ history' = historyFromRuns(RunsWithout(runId))
    /\ lastOp' = [op |-> "removeExperimentRun", id |-> runId]
    /\ now' = now + 1
    /\ UNCHANGED <<customRubrics, rubricVersions, evalVars, aggVars, fpVars,
                   runVars, cmpVars, pageVars, edVars, fnVars>>

clearExperimentRuns ==
    /\ lastOp.op # "persisted"
    /\ experimentRuns' = <<>>
    /\ history' = <<>>
    /\ lastOp' = [op |-> "clearExperimentRuns", id |-> <<>>]
    /\ now' = now + 1
    /\ UNCHANGED <<customRubrics, rubricVersions, evalVars, aggVars, fpVars,
                   runVars, cmpVars, pageVars, edVars, fnVars>>

\* removeResult: the run without the result
RunWithoutResult(run, resultId) ==
    [k \in DOMAIN run \cup {"evalResults"} |->
        IF k = "evalResults"
        THEN SelectSeq(EvalResultsOf(run), LAMBDA result : result.id # resultId)
        ELSE IF k = "sourceEvalResultIds"
        THEN SelectSeq(run.sourceEvalResultIds, LAMBDA id : id # resultId)
        ELSE run[k]]

\* removeResult: nextRuns
RunsWithoutResult(runs, resultId) ==
    SelectSeq([i \in 1..Len(runs) |-> RunWithoutResult(runs[i], resultId)],
              LAMBDA run : Len(run.sourceEvalResultIds) > 0
                           \/ run.runType # "adhoc")

removeResult(resultId) ==
    /\ lastOp.op # "persisted"
    /\ experimentRuns' = RunsWithoutResult(experimentRuns, resultId)
    /\ history' = historyFromRuns(RunsWithoutResult(experimentRuns, resultId))
    /\ lastOp' = [op |-> "removeResult", id |-> <<resultId>>]
    /\ now' = now + 1
    /\ UNCHANGED <<customRubrics, rubricVersions, evalVars, aggVars, fpVars,
                   runVars, cmpVars, pageVars, edVars, fnVars>>

\* state.experimentRuns.filter((run) => run.runType !== "adhoc")
RunsNotAdhoc == SelectSeq(experimentRuns, LAMBDA run : run.runType # "adhoc")

clearHistory ==
    /\ lastOp.op # "persisted"
    /\ experimentRuns' = RunsNotAdhoc
    /\ history' = historyFromRuns(RunsNotAdhoc)
    /\ lastOp' = [op |-> "clearHistory", id |-> <<>>]
    /\ now' = now + 1
    /\ UNCHANGED <<customRubrics, rubricVersions, evalVars, aggVars, fpVars,
                   runVars, cmpVars, pageVars, edVars, fnVars>>

\* what localStorage holds before the application is loaded: nothing, or
\* what a session of the version without runs and version lists left
InitHistory ==
    /\ \E legacy \in LegacyRubrics, legacyHistory \in LegacyHistories :
        /\ customRubrics = legacy
        /\ history = legacyHistory
    /\ rubricVersions = <<>>
    /\ experimentRuns = <<>>
    /\ lastOp = [op |-> "persisted", id |-> <<>>]
    /\ now = 1
    /\ InitEvalIdle
    /\ InitAggIdle
    /\ InitFpIdle
    /\ InitRunsIdle
    /\ InitCmpIdle
    /\ InitPageIdle
    /\ InitEdIdle
    /\ InitFnIdle

\* the application is loaded (merge), then the pages call the store
NextHistory ==
    \/ now <= MaxOps /\ merge
    \/ now <= MaxOps /\ \E run \in ServerRuns : addExperimentRun(run)
    \/ now <= MaxOps /\ \E run \in ServerRuns : removeExperimentRun(run.id)
    \/ now <= MaxOps /\ clearExperimentRuns
    \/ now <= MaxOps /\ lastOp.op # "persisted"
       /\ \E result \in HistoryResults : addResult(result)
    \/ now <= MaxOps /\ \E result \in HistoryResults : removeResult(result.id)
    \/ now <= MaxOps /\ clearHistory

SpecHistory == InitHistory /\ [][NextHistory]_vars

\* no two entries of the run list share an id
NoSharedRunId(runs) ==
    \A i, j \in 1..Len(runs) : runs[i].id = runs[j].id => i = j

\* the run of the given id is the first of the list after the step, it is
\* the only one of that id, and the other runs are as they were
ReplacedById(id) ==
    /\ Len(experimentRuns') > 0
    /\ experimentRuns'[1].id = id
    /\ \A k \in 2..Len(experimentRuns') : experimentRuns'[k].id # id
    /\ SelectSeq(experimentRuns', LAMBDA r : r.id # id)
         = SelectSeq(experimentRuns, LAMBDA r : r.id # id)

\* C24: the store replaces runs by id.  No two entries of experimentRuns
\* share an id, and adding a run, or a result whose ad-hoc run id
\* run-<resultId> may be present already, leaves exactly one entry of that
\* id, the one just added, first in the list, every other run unchanged.
C24_RunsReplacedById ==
    /\ [] NoSharedRunId(experimentRuns)
    /\ [][ /\ \A run \in ServerRuns :
                addExperimentRun(run) =>
                    ReplacedById(run.id) /\ experimentRuns'[1] = run
           /\ \A result \in HistoryResults :
                addResult(result) =>
                    /\ ReplacedById(<<"run-", result.id>>)
                    /\ experimentRuns'[1].evalResults = <<result>>
         ]_vars

\* C24 witness: the result e1 was added a second time, in its pairwise
\* form, while a server run and the run of e2 were in the list: the list
\* holds three runs and the first is the run of the new e1.
C24_Witness ==
    /\ lastOp.op = "addResult"
    /\ Len(experimentRuns) = 3
    /\ experimentRuns[1].id = <<"run-", "e1">>
    /\ experimentRuns[1].evalResults[1].mode = "pairwise"
    /\ \E k \in 2..3 : experimentRuns[k].runType = "dataset"
    /\ now = 5


\* the number of times the result occurs in the list
RECURSIVE Occurrences(_, _, _)
Occurrences(results, result, n) ==
    IF n = 0 THEN 0
    ELSE Occurrences(results, result, n - 1)
         + (IF results[n] = result THEN 1 ELSE 0)

\* the number of times the runs hold the result among their evalResults
RECURSIVE HeldByRuns(_, _, _)
HeldByRuns(runs, result, n) ==
    IF n = 0 THEN 0
    ELSE HeldByRuns(runs, result, n - 1)
         + Occurrences(EvalResultsOf(runs[n]), result,
                       Len(EvalResultsOf(runs[n])))

\* every result that occurs in the store or can be handed to it
KnownResults ==
    HistoryResults
    \cup { history[i] : i \in 1..Len(history) }
    \cup UNION { { EvalResultsOf(experimentRuns[k])[i] :
                     i \in 1..Len(EvalResultsOf(experimentRuns[k])) } :
                 k \in 1..Len(experimentRuns) }

\* C25: the store's history is the projection of its runs.  After each of
\* addExperimentRun, removeExperimentRun, clearExperimentRuns, addResult,
\* removeResult and clearHistory, and after the load-time merge, history
\* holds exactly the evalResults of the runs in experimentRuns, each as
\* often as the runs hold it, ordered by createdAt descending.
C25_HistoryIsProjection ==
    lastOp.op # "persisted" =>
        /\ \A result \in KnownResults :
             Occurrences(history, result, Len(history))
               = HeldByRuns(experimentRuns, result, Len(experimentRuns))
        /\ \A i, j \in 1..Len(history) :
             i < j => history[i].createdAt >= history[j].createdAt

\* C25 witness: the run of the oldest result, e2, is first in the run list
\* and e2 is last of a history of three results, behind e1 and e3.
C25_Witness ==
    /\ lastOp.op = "addResult"
    /\ Len(experimentRuns) = 3
    /\ Len(history) = 3
    /\ experimentRuns[1].evalResults[1].id = "e2"
    /\ history[3].id = "e2"

\* the number of ad-hoc runs that hold the result
AdhocHolders(runs, result) ==
    Cardinality({ k \in 1..Len(runs) :
                    /\ runs[k].runType = "adhoc"
                    /\ Occurrences(EvalResultsOf(runs[k]), result,
                                   Len(EvalResultsOf(runs[k]))) > 0 })

\* C27: the load-time merge of the persisted state loses no evaluation
\* result.  Every result of the persisted history is in the merged history
\* and held by exactly one ad-hoc run of the merged experimentRuns, and
\* every persisted custom rubric has a version list that is not empty after
\* the merge.
C27_MergeLosesNoResult ==
    [][ lastOp'.op = "merge" /\ now' # now =>
          /\ \A i \in 1..Len(history) :
               /\ Occurrences(history', history[i], Len(history')) > 0
               /\ AdhocHolders(experimentRuns', history[i]) = 1
          /\ \A i \in 1..Len(customRubrics) :
               /\ HasRubric(customRubrics', customRubrics[i].id)
               /\ Len(VersionsOf(rubricVersions', customRubrics[i].id)) > 0
      ]_vars

\* C27 witness: the merge of a state left by the version without runs has
\* made two ad-hoc runs of a history of two results, and a version list for
\* the persisted custom rubric.
C27_Witness ==
    /\ lastOp.op = "merge"
    /\ now = 2
    /\ Len(history) = 2
    /\ Len(experimentRuns) = 2
    /\ \A k \in 1..2 : experimentRuns[k].runType = "adhoc"
    /\ Len(customRubrics) = 1
    /\ Len(VersionsOf(rubricVersions, customRubrics[1].id)) = 1

-----------------------------------------------------------------------------
(* The aggregates of the reversed call *)

\* the aggregates of a BA call's result are those the judge gave under the
\* other letter: aggregateA is read from aggregate_score_B, with the
\* aggregate of the canonical scoresA to fall back on, and aggregateB from
\* aggregate_score_A
AggregatesSwappedBack(rubric, parsed, out) ==
    /\ out.aggregateA =
          normalizeAggregateScore(Get(parsed, "aggregate_score_B"),
                                  computeAggregate(out.scoresA, rubric))
    /\ out.aggregateB =
          normalizeAggregateScore(Get(parsed, "aggregate_score_A"),
                                  computeAggregate(out.scoresB, rubric))

\* C26: in the BA call runPairwiseEval attributes the judge's aggregate
\* scores to the same responses as its criterion scores and verdict: the
\* canonical aggregateA it returns comes from the judge's aggregate_score_B
\* and the canonical aggregateB from aggregate_score_A.
C26_ReversedAggregatesSwappedBack ==
    \A i \in 1..Len(calls) :
        (/\ PairwiseAccepted
         /\ req.gen = 2
         /\ calls[i].order = "BA"
         /\ calls[i].outcome # None
         /\ runPairwiseEval(ResolveRubric(req), "BA",
                            calls[i].outcome).thrown = "none")
        => AggregatesSwappedBack(
              ResolveRubric(req),
              parseJudgeJson(calls[i].outcome.text).val,
              runPairwiseEval(ResolveRubric(req), "BA", calls[i].outcome))

-----------------------------------------------------------------------------
(* app/api/datasets/import: POST.  memory.datasets is the list of the      *)
(* datasets and memory.datasetVersions the function from the dataset ids   *)
(* that have an entry to their version lists.  A content is its text and   *)
(* what JSON.parse makes of its lines (or Papa.parse of the whole, for     *)
(* csv); tags, slices, metadata and gold labels are left out.              *)

\* the number of import requests
MaxImports == 3

\* new Date().toISOString() at the first, second, ... import request
ImportTimes ==
    << <<"2", "0", "2", "6", "-", "0", "1", "-", "0", "1", "T", "0", "0", ":", "0", "0", ":", "0", "5", ".", "0", "5", "6", "Z">>,
       <<"2", "0", "2", "6", "-", "0", "1", "-", "0", "1", "T", "0", "0", ":", "0", "0", ":", "1", "2", ".", "0", "4", "6", "Z">>,
       <<"2", "0", "2", "6", "-", "0", "1", "-", "0", "1", "T", "0", "0", ":", "0", "0", ":", "1", "2", ".", "0", "4", "7", "Z">>,
       <<"2", "0", "2", "6", "-", "0", "1", "-", "0", "1", "T", "0", "0", ":", "0", "0", ":", "1", "2", ".", "0", "4", "8", "Z">> >>

\* a JSON object with string members, as a function from its keys
ObjectLine(text, row) == [text |-> text, kind |-> "object", row |-> row]

\* a line that is JSON but no object, and a line that is not JSON
OtherLine(text, kind) == [text |-> text, kind |-> kind, row |-> <<>>]

SingleRow == [k \in {"prompt", "response"} |->
                 IF k = "prompt" THEN <<"p">> ELSE <<"r">>]

PairRow == [k \in {"prompt", "responseA", "response_b"} |->
               IF k = "prompt" THEN <<"q">>
               ELSE IF k = "responseA" THEN <<"x">> ELSE <<"y">>]

PromptOnlyRow == [k \in {"prompt", "response"} |->
                     IF k = "prompt" THEN <<"p">> ELSE <<" ">>]

SingleLine == ObjectLine(<<"{", "\"", "p", "r", "o", "m", "p", "t", "\"", ":", "\"", "p", "\"", ",", "\"", "r", "e", "s", "p", "o", "n", "s", "e", "\"", ":", "\"", "r", "\"", "}">>, SingleRow)

PairLine ==
    ObjectLine(<<"{", "\"", "p", "r", "o", "m", "p", "t", "\"", ":", "\"", "q", "\"", ",", "\"", "r", "e", "s", "p", "o", "n", "s", "e", "A", "\"", ":", "\"", "x", "\"", ",", "\"", "r", "e", "s", "p", "o", "n", "s", "e", "_", "b", "\"", ":", "\"", "y", "\"", "}">>,
               PairRow)

PromptOnlyLine ==
    ObjectLine(<<"{", "\"", "p", "r", "o", "m", "p", "t", "\"", ":", "\"", "p", "\"", ",", "\"", "r", "e", "s", "p", "o", "n", "s", "e", "\"", ":", "\"", " ", "\"", "}">>, PromptOnlyRow)

ArrayLine == OtherLine(<<"[", "1", "]">>, "array")

BrokenLine == OtherLine(<<"{", "p", "r", "o", "m", "p", "t">>, "invalid")

\* the contents of the requests: the lines of a jsonl file, or a csv file
\* with what Papa.parse returns for it
JsonlContents ==
    { <<SingleLine>>, <<PairLine, SingleLine>>, <<PromptOnlyLine>>,
      <<ArrayLine>>, <<SingleLine, BrokenLine>> }

\* content.split(/\r?\n/) joined again: the text of a jsonl content
ContentText(lines) ==
    JoinWith([i \in 1..Len(lines) |-> lines[i].text], <<"\n">>)

\* a request body; valid says whether RequestSchema accepts it
ImportRequests ==
    { [valid |-> TRUE, name |-> name, format |-> "jsonl", lines |-> lines,
       content |-> ContentText(lines)] :
         name \in { <<"a", " ", "b">>, <<"a", "_", "b">>, <<" ", "A", " ", "B">> }, lines \in JsonlContents }
    \cup
    { [valid |-> TRUE, name |-> <<"a", " ", "b">>, format |-> "csv",
       lines |-> <<SingleLine>>, content |-> <<"p", "r", "o", "m", "p", "t", ",", "r", "e", "s", "p", "o", "n", "s", "e", "\n", "p", ",", "r">>],
      [valid |-> FALSE, name |-> <<>>, format |-> "jsonl",
       lines |-> <<SingleLine>>, content |-> ContentText(<<SingleLine>>)] }

\* getString(row, ...keys), for the first n keys
RECURSIVE getStringUpTo(_, _, _)
getStringUpTo(row, keys, n) ==
    IF n = 0 THEN <<>>
    ELSE IF getStringUpTo(row, keys, n - 1) # <<>>
    THEN getStringUpTo(row, keys, n - 1)
    ELSE IF keys[n] \in DOMAIN row THEN Trim(row[keys[n]]) ELSE <<>>

getString(row, keys) == getStringUpTo(row, keys, Len(keys))

\* parseRows: rows and issues.  For jsonl every line that is an object is a
\* row and every other line an issue; for csv Papa.parse gives the rows.
parseRows(format, lines) ==
    [rows |-> [i \in 1..Len(SelectSeq(lines, LAMBDA l : l.kind = "object")) |->
                 SelectSeq(lines, LAMBDA l : l.kind = "object")[i].row],
     issues |-> IF format = "jsonl"
                THEN SelectSeq([i \in 1..Len(lines) |->
                                  [line |-> i, kind |-> lines[i].kind]],
                               LAMBDA x : x.kind # "object")
                ELSE <<>>]

\* parseDatasetItems: the mode of a row
modeOf(row) ==
    IF ToLowerCase(getString(row, <<"mode">>)) = <<"s", "i", "n", "g", "l", "e">> THEN "single"
    ELSE IF ToLowerCase(getString(row, <<"mode">>)) = <<"p", "a", "i", "r", "w", "i", "s", "e">>
    THEN "pairwise"
    ELSE IF getString(row, <<"responseA", "response_a">>) # <<>>
            \/ getString(row, <<"responseB", "response_b">>) # <<>>
    THEN "pairwise"
    ELSE "single"

\* parseDatasetItems: the issue of a row, "" for none
rowIssue(row) ==
    IF getString(row, <<"prompt">>) = <<>> THEN "missing prompt"
    ELSE IF modeOf(row) = "single" /\ getString(row, <<"response">>) = <<>>
    THEN "single mode requires response"
    ELSE IF modeOf(row) = "pairwise"
            /\ (\/ getString(row, <<"responseA", "response_a">>) = <<>>
                \/ getString(row, <<"responseB", "response_b">>) = <<>>)
    THEN "pairwise mode requires both"
    ELSE ""

\* parseDatasetItems: the item of the row at index (from 0)
rowItem(row, index) ==
    [id |-> <<"i", "t", "e", "m", "-">> \o NatToDigits(index + 1) \o <<"-">>
            \o SubSeq(serverHashString(getString(row, <<"prompt">>) \o <<"-">>
                                       \o NatToDigits(index)), 1, 6),
     mode |-> modeOf(row),
     prompt |-> getString(row, <<"prompt">>)]

\* parseDatasetItems: items and issues after the first n rows
RECURSIVE itemsUpTo(_, _)
itemsUpTo(parsedRows, n) ==
    IF n = 0 THEN <<>>
    ELSE IF rowIssue(parsedRows[n]) = ""
    THEN Append(itemsUpTo(parsedRows, n - 1), rowItem(parsedRows[n], n - 1))
    ELSE itemsUpTo(parsedRows, n - 1)

RECURSIVE issuesUpTo(_, _)
issuesUpTo(parsedRows, n) ==
    IF n = 0 THEN <<>>
    ELSE IF rowIssue(parsedRows[n]) = "" THEN issuesUpTo(parsedRows, n - 1)
    ELSE Append(issuesUpTo(parsedRows, n - 1), [line |-> n, kind |-> rowIssue(parsedRows[n])])

parseDatasetItems(parsedRows) ==
    [items |-> itemsUpTo(parsedRows, Len(parsedRows)), issues |-> issuesUpTo(parsedRows, Len(parsedRows))]

\* one character of slugify: [^a-z0-9] is replaced
SlugChar(c) == IF c \in {"a", "b"} \/ IsDigit(c) THEN c ELSE "-"

\* replace(/[^a-z0-9]+/g, "-"): a run of other characters becomes one "-"
RECURSIVE DashRuns(_)
DashRuns(s) ==
    IF s = <<>> THEN <<>>
    ELSE IF SlugChar(s[Len(s)]) = "-" /\ Len(s) > 1
            /\ SlugChar(s[Len(s) - 1]) = "-"
    THEN DashRuns(SubSeq(s, 1, Len(s) - 1))
    ELSE Append(DashRuns(SubSeq(s, 1, Len(s) - 1)), SlugChar(s[Len(s)]))

\* replace(/(^-|-$)/g, "")
StripDashes(s) ==
    SubSeq(s, (IF s # <<>> /\ s[1] = "-" THEN 2 ELSE 1),
              (IF Len(s) > 1 /\ s[Len(s)] = "-" THEN Len(s) - 1 ELSE Len(s)))

\* lib/server-memory: slugify, for names of the letters a and b, digits and
\* other characters
slugify(input) ==
    IF StripDashes(DashRuns(Trim(ToLowerCase(input)))) = <<>> THEN <<"d", "a", "t", "a", "s", "e", "t">>
    ELSE StripDashes(DashRuns(Trim(ToLowerCase(input))))

\* memory.datasets.find((dataset) => dataset.name.toLowerCase() === ...):
\* the index of the dataset found, 0 for none
existingIndex(datasets, name) ==
    IF \E i \in 1..Len(datasets) :
          ToLowerCase(datasets[i].name) = ToLowerCase(Trim(name))
    THEN CHOOSE i \in 1..Len(datasets) :
          /\ ToLowerCase(datasets[i].name) = ToLowerCase(Trim(name))
          /\ \A j \in 1..(i - 1) :
                ToLowerCase(datasets[j].name) # ToLowerCase(Trim(name))
    ELSE 0

\* existing?.id ?? `${slugify(name)}-${hashString(`${name}-${now}`).slice(0, 6)}`
datasetIdOf(datasets, name, time) ==
    IF existingIndex(datasets, name) > 0
    THEN datasets[existingIndex(datasets, name)].id
    ELSE slugify(name) \o <<"-">>
         \o SubSeq(serverHashString(name \o <<"-">> \o time), 1, 6)

\* the version POST stores
versionOf(r, datasetId, versions, items, time) ==
    [id |-> datasetId \o <<"-", "v">> \o NatToDigits(Len(versions) + 1),
     datasetId |-> datasetId,
     versionNumber |-> Len(versions) + 1,
     createdAt |-> time,
     format |-> r.format,
     hash |-> serverHashString(r.content \o <<":">> \o NatToDigits(Len(items))
                               \o <<":">> \o
                               (IF r.format = "csv" THEN <<"c", "s", "v">> ELSE <<"j", "s", "o", "n", "l">>)),
     itemCount |-> Len(items),
     items |-> items]

\* totalVersions of the dataset POST stores: versionNumber for an existing
\* dataset, 1 for a new one
totalVersionsOf(datasets, name, versionNumber) ==
    IF existingIndex(datasets, name) > 0 THEN versionNumber ELSE 1

\* the dataset POST stores
datasetOf(datasets, name, datasetId, version, time) ==
    [id |-> datasetId,
     name |-> IF existingIndex(datasets, name) > 0
              THEN datasets[existingIndex(datasets, name)].name
              ELSE Trim(name),
     createdAt |-> IF existingIndex(datasets, name) > 0
                   THEN datasets[existingIndex(datasets, name)].createdAt
                   ELSE time,
     updatedAt |-> time,
     latestVersionId |-> version.id,
     totalVersions |-> totalVersionsOf(datasets, name, version.versionNumber)]

\* memory after the two assignments of POST
memoryWith(dataset, version) ==
    [memory EXCEPT
       !.datasetVersions =
          WithVersions(@, dataset.id,
                       Append(VersionsOf(@, dataset.id), version)),
       !.datasets =
          <<dataset>> \o SelectSeq(@, LAMBDA d : d.id # dataset.id)]

\* POST from the two parses on
ImportParsed(r, items, issues, time) ==
    IF Len(items) = 0 \/ Len(issues) > 0
    THEN /\ runResp' = [status |-> 400,
                        error |-> "Dataset import failed validation"]
         /\ UNCHANGED memory
    ELSE /\ memory' =
              memoryWith(
                 datasetOf(memory.datasets, r.name,
                    datasetIdOf(memory.datasets, r.name, time),
                    versionOf(r, datasetIdOf(memory.datasets, r.name, time),
                       VersionsOf(memory.datasetVersions,
                                  datasetIdOf(memory.datasets, r.name, time)),
                       items, time),
                    time),
                 versionOf(r, datasetIdOf(memory.datasets, r.name, time),
                    VersionsOf(memory.datasetVersions,
                               datasetIdOf(memory.datasets, r.name, time)),
                    items, time))
         /\ runResp' = [status |-> 200, error |-> ""]

Import(r) ==
    /\ runReq' = r
    /\ runClock' = runClock + 1
    /\ IF ~r.valid
       THEN /\ runResp' = [status |-> 400,
                           error |-> "Invalid dataset import request"]
            /\ UNCHANGED memory
       ELSE ImportParsed(r,
               parseDatasetItems(parseRows(r.format, r.lines).rows).items,
               parseRows(r.format, r.lines).issues
                 \o parseDatasetItems(parseRows(r.format, r.lines).rows).issues,
               ImportTimes[runClock + 1])
    /\ UNCHANGED <<runLocals, nanoids, evalVars, aggVars, storeVars, fpVars,
                   cmpVars, pageVars, extVars>>

\* the server after createState()
InitImport ==
    /\ memory = [datasets |-> <<>>, datasetVersions |-> <<>>,
                 experimentRuns |-> <<>>]
    /\ runReq = None
    /\ runResp = None
    /\ runLocals = None
    /\ nanoids = 0
    /\ runClock = 0
    /\ InitEvalIdle
    /\ InitAggIdle
    /\ InitStoreEmpty
    /\ InitFpIdle
    /\ InitCmpIdle
    /\ InitPageIdle
    /\ InitExtIdle

NextImport ==
    runClock < MaxImports /\ runClock < Len(ImportTimes)
    /\ \E r \in ImportRequests : Import(r)

SpecImport == InitImport /\ [][NextImport]_vars

\* the versions of every dataset are numbered 1..n in list order,
\* totalVersions is n and latestVersionId the id of version n
VersionsInStep ==
    /\ \A id \in DOMAIN memory.datasetVersions :
         \A i \in 1..Len(memory.datasetVersions[id]) :
            memory.datasetVersions[id][i].versionNumber = i
    /\ \A k \in 1..Len(memory.datasets) :
         /\ memory.datasets[k].totalVersions
              = Len(VersionsOf(memory.datasetVersions, memory.datasets[k].id))
         /\ memory.datasets[k].totalVersions > 0
         /\ memory.datasets[k].latestVersionId
              = memory.datasetVersions[memory.datasets[k].id][
                   memory.datasets[k].totalVersions].id

\* C28: after any sequence of dataset import requests, accepted or
\* rejected, every dataset's stored versions carry the versionNumbers 1..n
\* in list order, its totalVersions is n and its latestVersionId is the id
\* of version n; and an import rejected for a row or parse issue changes
\* neither the dataset list nor any version list.
C28_DatasetVersionsInStep ==
    /\ [] VersionsInStep
    /\ [][runResp'.status = 400 => memory' = memory]_vars


\* the items of the dataset version of the id, in the server's memory
ItemsOfVersion(versionId) ==
    LET holders == {d \in DOMAIN memory.datasetVersions :
                       \E i \in 1..Len(memory.datasetVersions[d]) :
                          memory.datasetVersions[d][i].id = versionId}
        d == CHOOSE d \in holders : TRUE
    IN memory.datasetVersions[d][
          CHOOSE i \in 1..Len(memory.datasetVersions[d]) :
             memory.datasetVersions[d][i].id = versionId].items

-----------------------------------------------------------------------------
(* app/api/experiments/compare: POST.  The runs are those the experiment   *)
(* run route recorded in the server's memory; cmpIn is the body of the     *)
(* last compare request and cmpOut the answer to it.                       *)

\* the bodies of the experiment-run requests that fill the memory
ComparedRuns ==
    { RunBase,
      [RunBase EXCEPT !.name = Some(<<"x">>)],
      [RunBase EXCEPT !.evalMode = "pairwise"],
      [RunBase EXCEPT !.evalMode = "pairwise", !.repeats = Some(2)],
      [RunBase EXCEPT !.datasetVersionId = Some(<<"v", "1">>)],
      [RunBase EXCEPT !.judgeModelId = <<"gpt-", "4o-mini">>],
      [RunBase EXCEPT !.judgeModelId = <<"claude-", "3-5-sonnet-20241022">>],
      [RunBase EXCEPT !.rubricVersionRef =
                         RubricRef(<<"r", "1", ":", "v", "1", ":", "a", "b">>)],
      [RunBase EXCEPT !.judgePromptVersionRef = PromptRef(<<"p", "1">>, 2)],
      [RunBase EXCEPT !.repeats = Some(2)] }

\* the run ids a compare request names: those of the runs the server can
\* hold, one no run has, and the empty string
ComparedIds == {<<"exp-", n>> : n \in 1..(MaxRuns + 1)} \cup {<<>>}

CompareRequests == [baselineRunId : ComparedIds, candidateRunId : ComparedIds]

\* RequestSchema.safeParse(body).success of the compare route
CompareRequestSchema(r) == r.baselineRunId # <<>> /\ r.candidateRunId # <<>>

\* runs.find((run) => run.id === runId), or None
findRun(runId, runs) ==
    IF \E i \in 1..Len(runs) : runs[i].id = runId
    THEN runs[CHOOSE i \in 1..Len(runs) :
                 /\ runs[i].id = runId
                 /\ \A j \in 1..(i - 1) : runs[j].id # runId]
    ELSE None

\* rubricVersionRef?.versionId ?? "" and judgePromptVersionRef?.versionNumber ?? 1
VersionIdOrEmpty(run) ==
    IF run.rubricVersionRef = Absent THEN <<>>
    ELSE ValueOf(run.rubricVersionRef).versionId

VersionNumberOrOne(run) ==
    IF run.judgePromptVersionRef = Absent THEN 1
    ELSE ValueOf(run.judgePromptVersionRef).versionNumber

\* const warnings: string[] = [] and the four pushes
warningsOf(baseline, candidate) ==
    (IF baseline.config.evalMode # candidate.config.evalMode
     THEN <<"Evaluation modes differ across compared runs.">> ELSE <<>>)
    \o (IF baseline.datasetVersionId # candidate.datasetVersionId
        THEN <<"Dataset versions differ across compared runs.">> ELSE <<>>)
    \o (IF VersionIdOrEmpty(baseline) # VersionIdOrEmpty(candidate)
        THEN <<"Rubric versions differ across compared runs.">> ELSE <<>>)
    \o (IF VersionNumberOrOne(baseline) # VersionNumberOrOne(candidate)
        THEN <<"Judge prompt versions differ across compared runs.">>
        ELSE <<>>)

\* round(value, digits) for a value held in the unit 10^-places of which
\* 10^-digits is step units: Math.round rounds a half up
roundTo(value, step) == ((2 * value + step) \div (2 * step)) * step

\* a variant of deltaOf that gives the size of the difference
deltaOfSize(candidate, baseline) ==
    IF candidate >= baseline THEN roundTo(candidate - baseline, 1)
    ELSE roundTo(baseline - candidate, 1)

\* round(candidate.metrics.x - baseline.metrics.x, digits), the digits
\* being those the metric is held with
deltaOf(candidate, baseline) == roundTo(candidate - baseline, 1)

\* the delta of an optional rate: undefined unless both are numbers
rateDeltaOf(candidate, baseline) ==
    IF baseline # Absent /\ candidate # Absent
    THEN Some(deltaOf(ValueOf(candidate), ValueOf(baseline)))
    ELSE Absent

\* const comparison: RunComparison = {...}; the mean score is held in
\* hundredths and so is its delta
comparisonOf(baseline, candidate) ==
    [baselineRunId |-> baseline.id,
     candidateRunId |-> candidate.id,
     compatible |-> Len(warningsOf(baseline, candidate)) = 0,
     warnings |-> warningsOf(baseline, candidate),
     verdict |->
        verdictFromDeltas(
           deltaOf(candidate.metrics.meanAggregateScore,
                   baseline.metrics.meanAggregateScore),
           deltaOf(candidate.metrics.passRate, baseline.metrics.passRate),
           deltaOf(candidate.metrics.estimatedCostUsd,
                   baseline.metrics.estimatedCostUsd)),
     deltas |->
        [meanAggregateScore |->
            deltaOf(candidate.metrics.meanAggregateScore,
                    baseline.metrics.meanAggregateScore),
         passRate |->
            deltaOf(candidate.metrics.passRate, baseline.metrics.passRate),
         estimatedCostUsd |->
            deltaOf(candidate.metrics.estimatedCostUsd,
                    baseline.metrics.estimatedCostUsd),
         inputTokens |->
            candidate.metrics.inputTokens - baseline.metrics.inputTokens,
         outputTokens |->
            candidate.metrics.outputTokens - baseline.metrics.outputTokens,
         winRateA |->
            rateDeltaOf(candidate.metrics.winRateA, baseline.metrics.winRateA),
         winRateB |->
            rateDeltaOf(candidate.metrics.winRateB, baseline.metrics.winRateB),
         tieRate |->
            rateDeltaOf(candidate.metrics.tieRate, baseline.metrics.tieRate)]]

\* the answer of POST to the body r over the runs of the memory
compareResponse(runs, r) ==
    IF ~CompareRequestSchema(r)
    THEN [status |-> 400, error |-> "Invalid compare request"]
    ELSE IF findRun(r.baselineRunId, runs) = None
            \/ findRun(r.candidateRunId, runs) = None
    THEN [status |-> 404, error |-> "Run not found"]
    ELSE [status |-> 200,
          comparison |-> comparisonOf(findRun(r.baselineRunId, runs),
                                      findRun(r.candidateRunId, runs))]

\* POST /api/experiments/compare with body r
ComparePost(r) ==
    /\ cmpIn' = r
    /\ cmpOut' = compareResponse(memory.experimentRuns, r)
    /\ UNCHANGED <<evalVars, aggVars, storeVars, fpVars, runVars, pageVars,
                   extVars>>

\* POST /api/experiments/run with one of the bodies of ComparedRuns
RunCompared ==
    /\ runClock < MaxRuns
    /\ \E r \in ComparedRuns : RunExperiment(r)

InitCompare ==
    /\ InitRunsIdle
    /\ InitCmpIdle
    /\ InitEvalIdle
    /\ InitAggIdle
    /\ InitStoreEmpty
    /\ InitFpIdle
    /\ InitPageIdle
    /\ InitExtIdle

NextCompare ==
    \/ RunCompared
    \/ \E r \in CompareRequests : ComparePost(r)

SpecCompare == InitCompare /\ [][NextCompare]_vars

\* the verdict of the mirrored comparison
mirrored(verdict) ==
    IF verdict = "improved" THEN "regressed"
    ELSE IF verdict = "regressed" THEN "improved"
    ELSE verdict

\* the answer of POST to the last request with its two run ids swapped
swappedResponse ==
    compareResponse(memory.experimentRuns,
                    [baselineRunId |-> cmpIn.candidateRunId,
                     candidateRunId |-> cmpIn.baselineRunId])

\* the last compare request was answered with a comparison
Compared == cmpOut # None /\ cmpOut.status = 200

\* C30: comparing two runs is mirror-symmetric: the answer to the request
\* with baselineRunId and candidateRunId swapped has regressed for improved
\* and improved for regressed, the same verdict when it is mixed or
\* inconclusive, and the same compatible and warnings; comparing a run with
\* itself gives inconclusive and compatible; and no compare request
\* changes the run repository.
C30_CompareIsMirrorSymmetric ==
    /\ [](Compared =>
            /\ swappedResponse.status = 200
            /\ swappedResponse.comparison.verdict
                 = mirrored(cmpOut.comparison.verdict)
            /\ swappedResponse.comparison.compatible
                 = cmpOut.comparison.compatible
            /\ swappedResponse.comparison.warnings
                 = cmpOut.comparison.warnings
            /\ cmpIn.baselineRunId = cmpIn.candidateRunId
                 => /\ cmpOut.comparison.verdict = "inconclusive"
                    /\ cmpOut.comparison.compatible)
    /\ [][(cmpIn' # cmpIn \/ cmpOut' # cmpOut) => memory' = memory]_vars

\* C30 witness: two different runs were compared and the answer is
\* improved with a warning, where the answer to the swapped request is
\* regressed.
C30_Witness ==
    /\ Compared
    /\ cmpIn.baselineRunId # cmpIn.candidateRunId
    /\ cmpOut.comparison.verdict = "improved"
    /\ swappedResponse.comparison.verdict = "regressed"
    /\ cmpOut.comparison.warnings # <<>>

=============================================================================
